---- MODULE Spec2Model ----
(***************************************************************************)
(* A model of the mkvdump EBML/Matroska parser: the VINT and id codec,     *)
(* the header parser, the body interpreter, the resync scanner in its two  *)
(* variants, the element loop parse_elements, the tree builder             *)
(* build_element_trees, the chunked driver and the BufferReader.           *)
(*                                                                         *)
(* Bytes are the integers 0..255 and a slice &[u8] is a sequence of bytes. *)
(* A u64 is kept as its 8 big-endian bytes (the value_buffer of the code), *)
(* so that every VINT width up to 8 is exact; a usize that takes part in   *)
(* arithmetic is the natural number those bytes denote.                    *)
(***************************************************************************)
EXTENDS Integers, Sequences, FiniteSets, TLC

VARIABLES
    input,          \* the bytes handed to the operation under analysis
    show_position,  \* parse_elements: the show_position argument
    read_buffer,    \* parse_elements: the unparsed rest of the input
    position,       \* parse_elements: Option<usize>, offset of read_buffer
    elements,       \* parse_elements: the Vec<Element> built so far
    trees,          \* the forest returned by build_element_trees
    result,         \* the value returned by a single parser call
    overflow_checks,\* the build: TRUE when integer overflow panics (debug),
                    \* FALSE when it wraps (release)
    pc,             \* where the caller stands
    buffer_size,    \* chunked driver: N, the capacity of the buffer
    filled,         \* chunked driver: bytes in the buffer before the read
    num_read,       \* chunked driver: n, the bytes the last read returned
    end_of_file,    \* chunked driver: the last read returned no byte
    corrupt_mode,   \* chunked driver: TRUE while resynchronising
    source_offset   \* the offset of the next unread byte of the source

driver_vars == <<buffer_size, filled, num_read, end_of_file, corrupt_mode,
                 source_offset>>

vars == <<input, show_position, read_buffer, position, elements, trees, result,
          overflow_checks, pc, driver_vars>>

\* The chunked driver and the readers take no part
NoDriver ==
    /\ buffer_size = 0
    /\ filled = 0
    /\ num_read = 0
    /\ end_of_file = FALSE
    /\ corrupt_mode = FALSE
    /\ source_offset = 0

(***************************************************************************)
(* Bounds of the model                                                     *)
(***************************************************************************)
\* VINT inputs: a first byte followed by at most MaxTail further bytes
MaxTail == 8

(***************************************************************************)
(* Option, Result and integer representations                              *)
(***************************************************************************)
\* Option<usize> / Option<u32>: None is -1, Some(n) is n
None == -1

\* Option<u64> as bytes: None is the empty sequence
NoneU64 == <<>>

Ok(rest, val) == [ok |-> TRUE, rest |-> rest, val |-> val]

Err(e) == [ok |-> FALSE, err |-> e]

NoResult == [ok |-> FALSE, err |-> "NotCalled"]

\* A panic of the callee: no value is returned and the caller unwinds
Panic == [ok |-> FALSE, err |-> "Panic"]

Byte == 0..255

RECURSIVE Repeat(_, _)
Repeat(b, n) == IF n <= 0 THEN <<>> ELSE <<b>> \o Repeat(b, n - 1)

Tail_(s, n) == SubSeq(s, n + 1, Len(s))

\* value_buffer[(w - bytes.len())..].copy_from_slice(bytes) on a zeroed buffer
PadLeft(bytes, w) == Repeat(0, w - Len(bytes)) \o bytes

\* The natural number denoted by big-endian bytes (u32::from_be_bytes, and
\* the usize behind a u64 whose value is small enough to take part in sums)
RECURSIVE from_be_bytes(_)
from_be_bytes(bytes) ==
    IF bytes = <<>> THEN 0
    ELSE from_be_bytes(SubSeq(bytes, 1, Len(bytes) - 1)) * 256 + bytes[Len(bytes)]

\* Bitwise and of two bytes
RECURSIVE AndByte(_, _)
AndByte(a, b) ==
    IF a = 0 \/ b = 0 THEN 0
    ELSE (a % 2) * (b % 2) + 2 * AndByte(a \div 2, b \div 2)

\* u64 & u64 on the big-endian bytes
AndU64(a, b) == [i \in 1..8 |-> AndByte(a[i], b[i])]

\* Mutation of bitmask_of: the mask spans whole bytes, (1 << 8*size) - 1
bitmask_of_whole_bytes(num_bits) ==
    [j \in 1..8 |-> IF 8 * (8 - j) < num_bits THEN 255 ELSE 0]

\* (1u64 << num_bits) - 1 as big-endian bytes
bitmask_of(num_bits) ==
    [j \in 1..8 |->
        LET low == 8 * (8 - j)
            cnt == IF num_bits - low >= 8 THEN 8
                   ELSE IF num_bits - low <= 0 THEN 0 ELSE num_bits - low
        IN  2 ^ cnt - 1]

\* Width of usize on the target, in bits (the 64-bit host the CLI is built for)
UsizeBits == 64

\* u64 -> usize (value.try_into()): fails when the value needs more bits
try_into_usize(value) ==
    IF \A j \in 1..(8 - UsizeBits \div 8) : value[j] = 0
    THEN [ok |-> TRUE, val |-> value]
    ELSE Err("Overflow")

(***************************************************************************)
(* nom::bytes::streaming::take                                             *)
(***************************************************************************)
take(len, inp) ==
    IF Len(inp) < len THEN Err("NeedData")
    ELSE Ok(Tail_(inp, len), SubSeq(inp, 1, len))

(***************************************************************************)
(* count_leading_zero_bits                                                 *)
(***************************************************************************)
\* Mutation of clz_from: the scan stops at 7, so 0x00 counts 7 leading zeros
RECURSIVE clz_from_capped(_, _)
clz_from_capped(b, leading_zeros) ==
    IF leading_zeros >= 7 THEN 7
    ELSE IF b >= 128 \div (2 ^ leading_zeros) THEN leading_zeros
    ELSE clz_from_capped(b, leading_zeros + 1)

\* The loop of count_leading_zero_bits, from a given count on
RECURSIVE clz_from(_, _)
clz_from(b, leading_zeros) ==
    IF leading_zeros >= 8 THEN 8
    ELSE IF b >= 128 \div (2 ^ leading_zeros) THEN leading_zeros
    ELSE clz_from(b, leading_zeros + 1)

count_leading_zero_bits(b) == clz_from(b, 0)

(***************************************************************************)
(* The element catalog (the subset of ids the model's inputs can spell)    *)
(***************************************************************************)
Catalog == <<
    [name |-> "Ebml",           id |-> 440786851, type |-> "Master"],   \* 0x1A45DFA3
    [name |-> "EbmlVersion",    id |-> 17030,     type |-> "Unsigned"], \* 0x4286
    [name |-> "DocType",        id |-> 17026,     type |-> "String"],   \* 0x4282
    [name |-> "Void",           id |-> 236,       type |-> "Binary"],   \* 0xEC
    [name |-> "Crc32",          id |-> 191,       type |-> "Binary"],   \* 0xBF
    [name |-> "Segment",        id |-> 408125543, type |-> "Master"],   \* 0x18538067
    [name |-> "SeekHead",       id |-> 290298740, type |-> "Master"],   \* 0x114D9B74
    [name |-> "SeekId",         id |-> 21419,     type |-> "Binary"],   \* 0x53AB
    [name |-> "Info",           id |-> 357149030, type |-> "Master"],   \* 0x1549A966
    [name |-> "Duration",       id |-> 17545,     type |-> "Float"],    \* 0x4489
    [name |-> "DateUtc",        id |-> 17505,     type |-> "Date"],     \* 0x4461
    [name |-> "Title",          id |-> 31657,     type |-> "Utf8"],     \* 0x7BA9
    [name |-> "Cluster",        id |-> 524531317, type |-> "Master"],   \* 0x1F43B675
    [name |-> "SimpleBlock",    id |-> 163,       type |-> "Binary"],   \* 0xA3
    [name |-> "Block",          id |-> 161,       type |-> "Binary"],   \* 0xA1
    [name |-> "ReferenceBlock", id |-> 251,       type |-> "Signed"],   \* 0xFB
    [name |-> "Tracks",         id |-> 374648427, type |-> "Master"],   \* 0x1654AE6B
    [name |-> "TrackType",      id |-> 131,       type |-> "Unsigned"], \* 0x83
    [name |-> "CodecId",        id |-> 134,       type |-> "String"],   \* 0x86
    [name |-> "Cues",           id |-> 475249515, type |-> "Master"],   \* 0x1C53BB6B
    [name |-> "Attachments",    id |-> 423732329, type |-> "Master"],   \* 0x1941A469
    [name |-> "Chapters",       id |-> 272869232, type |-> "Master"],   \* 0x1043A770
    [name |-> "ChapterDisplay", id |-> 128,       type |-> "Master"],   \* 0x80
    [name |-> "ChapterAtom",    id |-> 182,       type |-> "Master"],   \* 0xB6
    [name |-> "Tags",           id |-> 307544935, type |-> "Master"]    \* 0x1254C367
>>

CatalogIndex(raw) == {i \in 1..Len(Catalog) : Catalog[i].id = raw}

\* An Id is its variant name and its raw wire value
IdOf(name) ==
    LET i == CHOOSE i \in 1..Len(Catalog) : Catalog[i].name = name
    IN  [name |-> name, value |-> Catalog[i].id]

\* Id::new
Id_new(raw) ==
    IF CatalogIndex(raw) # {}
    THEN [name |-> Catalog[CHOOSE i \in CatalogIndex(raw) : TRUE].name, value |-> raw]
    ELSE [name |-> "Unknown", value |-> raw]

\* Id::corrupted
Id_corrupted == [name |-> "Corrupted", value |-> None]

\* Id::get_type
get_type(id) ==
    IF id.name \in {"Unknown", "Corrupted"} THEN "Binary"
    ELSE Catalog[CHOOSE i \in 1..Len(Catalog) : Catalog[i].name = id.name].type

\* Id::get_value
get_value(id) == id.value

(***************************************************************************)
(* parse_id                                                                *)
(***************************************************************************)
\* Mutation of parse_id: 4-byte ids are rejected (num_bytes >= 4)
parse_id_three_bytes(inp) ==
    LET peeked == take(1, inp) IN
    IF ~peeked.ok THEN Err(peeked.err)
    ELSE
        LET first_byte == inp[1]
            num_bytes  == count_leading_zero_bits(first_byte) + 1
        IN  IF num_bytes >= 4 THEN Err("InvalidId")
            ELSE
                LET taken == take(num_bytes, inp) IN
                IF ~taken.ok THEN Err(taken.err)
                ELSE Ok(taken.rest, Id_new(from_be_bytes(PadLeft(taken.val, 4))))

parse_id(inp) ==
    LET peeked == take(1, inp) IN
    IF ~peeked.ok THEN Err(peeked.err)
    ELSE
        LET first_byte == inp[1]
            num_bytes  == count_leading_zero_bits(first_byte) + 1
        IN  IF num_bytes > 4 THEN Err("InvalidId")
            ELSE
                LET taken == take(num_bytes, inp) IN
                IF ~taken.ok THEN Err(taken.err)
                ELSE Ok(taken.rest, Id_new(from_be_bytes(PadLeft(taken.val, 4))))

(***************************************************************************)
(* parse_varint: Ok carries Option<usize> as the 8 big-endian bytes of the *)
(* value, or NoneU64 for the all-ones "unknown" sentinel                   *)
(***************************************************************************)
parse_varint(first_input) ==
    LET peeked == take(1, first_input) IN
    IF ~peeked.ok THEN Err(peeked.err)
    ELSE
        LET first_byte       == first_input[1]
            vint_prefix_size == count_leading_zero_bits(first_byte) + 1
        IN  IF vint_prefix_size > 8 THEN Err("InvalidVarint")
            ELSE
                LET taken == take(vint_prefix_size, first_input) IN
                IF ~taken.ok THEN Err(taken.err)
                ELSE
                    LET value_buffer      == PadLeft(taken.val, 8)
                        num_bits_in_value == 7 * vint_prefix_size
                        bitmask           == bitmask_of(num_bits_in_value)
                        value             == AndU64(value_buffer, bitmask)
                    IN  IF value # bitmask
                        THEN LET conv == try_into_usize(value) IN
                             IF conv.ok THEN Ok(taken.rest, conv.val)
                             ELSE Err(conv.err)
                        ELSE Ok(taken.rest, NoneU64)

(***************************************************************************)
(* Specification SpecVarint: parse_varint applied to bounded inputs        *)
(***************************************************************************)
\* First bytes: for every width the marker alone and the marker with all
\* value bits set, and 0x00
VarintFirstBytes ==
    {0} \cup {2 ^ (7 - k) : k \in 0..7} \cup {2 ^ (8 - k) - 1 : k \in 0..7}

VarintTailBytes == {0, 255}

RECURSIVE SeqsUpTo(_, _)
SeqsUpTo(S, n) ==
    IF n = 0 THEN {<<>>}
    ELSE LET shorter == SeqsUpTo(S, n - 1)
         IN  shorter \cup {Append(s, b) : s \in {t \in shorter : Len(t) = n - 1}, b \in S}

VarintInputs ==
    {<<>>} \cup {<<f>> \o t : f \in VarintFirstBytes, t \in SeqsUpTo(VarintTailBytes, MaxTail)}

Idle ==
    /\ overflow_checks = TRUE
    /\ show_position = FALSE
    /\ read_buffer = <<>>
    /\ position = None
    /\ elements = <<>>
    /\ trees = <<>>
    /\ NoDriver

InitVarint ==
    /\ input \in VarintInputs
    /\ result = NoResult
    /\ pc = "call"
    /\ Idle

CallParseVarint ==
    /\ pc = "call"
    /\ result' = parse_varint(input)
    /\ pc' = "parse_varint"
    /\ UNCHANGED <<input, show_position, read_buffer, position, elements, trees,
                   overflow_checks, driver_vars>>

NextVarint == CallParseVarint

SpecVarint == InitVarint /\ [][NextVarint]_vars


(***************************************************************************)
(* Vocabulary of the codec properties, stated on the bytes of the input    *)
(***************************************************************************)
\* Number of leading zero bits of a byte, by its numeric range
LeadingZeros(b) ==
    IF b = 0 THEN 8 ELSE CHOOSE k \in 0..7 : 2 ^ (7 - k) <= b /\ b < 2 ^ (8 - k)

\* The first k+1 bytes of s are a VINT whose 7*(k+1) value bits are all 1
AllOnesVint(s, k) ==
    /\ s[1] = 2 ^ (8 - k) - 1
    /\ \A i \in 2..(k + 1) : s[i] = 255

\* The first k+1 bytes of s with the width marker bit removed, as a u64
MarkerRemoved(s, k) == PadLeft(<<s[1] - 2 ^ (7 - k)>> \o SubSeq(s, 2, k + 1), 8)

\* Big-endian bytes of a natural number, without leading zero bytes
RECURSIVE BigEndian(_)
BigEndian(n) == IF n = 0 THEN <<>> ELSE Append(BigEndian(n \div 256), n % 256)

IsErr(r, e) == ~r.ok /\ r.err = e

C9_VarintErrors ==
    pc = "parse_varint" =>
    /\ input = <<>> => IsErr(result, "NeedData")
    /\ (input # <<>> /\ input[1] = 0) => IsErr(result, "InvalidVarint")
    /\ (input # <<>> /\ input[1] # 0) =>
          (IsErr(result, "NeedData") <=> Len(input) < LeadingZeros(input[1]) + 1)
    /\ ~result.ok => DOMAIN result = {"ok", "err"}

\* 0x00 followed by eight more bytes is InvalidVarint, not a 9-byte VINT
C9_Witness ==
    /\ pc = "parse_varint"
    /\ Len(input) = 9
    /\ input[1] = 0
    /\ IsErr(result, "InvalidVarint")

(***************************************************************************)
(* Specification SpecId: parse_id applied to bounded inputs                *)
(***************************************************************************)
\* Inputs are concatenations of at most MaxIdChunks of these chunks
MaxIdChunks == 3

IdChunks == {
    <<26, 69, 223, 163>>,   \* 1A 45 DF A3  Ebml
    <<66, 134>>,            \* 42 86        EbmlVersion
    <<236>>,                \* EC           Void
    <<128>>,                \* 80
    <<255>>,                \* FF
    <<0>>,                  \* 00           width 9
    <<8>>,                  \* 08           width 5
    <<16>>,                 \* 10           width 4
    <<25>>,                 \* 19           width 4
    <<32>>,                 \* 20           width 3
    <<64>> }                \* 40           width 2

RECURSIVE ChunkSeqs(_, _)
ChunkSeqs(chunks, n) ==
    IF n = 0 THEN {<<>>}
    ELSE LET shorter == ChunkSeqs(chunks, n - 1)
         IN  shorter \cup {s \o c : s \in shorter, c \in chunks}

InitId ==
    /\ input \in ChunkSeqs(IdChunks, MaxIdChunks)
    /\ result = NoResult
    /\ pc = "call"
    /\ Idle

CallParseId ==
    /\ pc = "call"
    /\ result' = parse_id(input)
    /\ pc' = "parse_id"
    /\ UNCHANGED <<input, show_position, read_buffer, position, elements, trees,
                   overflow_checks, driver_vars>>

NextId == CallParseId

SpecId == InitId /\ [][NextId]_vars

(***************************************************************************)
(* C10: parse_id rejects a first byte with four or more leading zero bits  *)
(* with InvalidId; for widths 1 to 4 (bytes present) it consumes exactly   *)
(* the width and yields the raw value that keeps the marker bits, so the   *)
(* consumed bytes are the big-endian encoding of the raw value; a raw      *)
(* value outside the catalog yields Unknown(raw), never an error.          *)
(***************************************************************************)
C10_ParseId ==
    (pc = "parse_id" /\ input # <<>>) =>
    LET k == LeadingZeros(input[1]) IN
    /\ k >= 4 => IsErr(result, "InvalidId")
    /\ (k < 4 /\ Len(input) >= k + 1) =>
          /\ result.ok
          /\ result.rest = Tail_(input, k + 1)
          /\ BigEndian(result.val.value) = SubSeq(input, 1, k + 1)
          /\ LET known == {i \in 1..Len(Catalog) : BigEndian(Catalog[i].id) = SubSeq(input, 1, k + 1)}
             IN  IF known = {} THEN result.val.name = "Unknown"
                 ELSE \E i \in known : result.val.name = Catalog[i].name

\* A 4-byte id that is not in the catalog comes back as Unknown(raw)
C10_Witness ==
    /\ pc = "parse_id"
    /\ Len(input) >= 4
    /\ input[1] = 25
    /\ result.ok
    /\ result.val.name = "Unknown"
    /\ result.val.value = from_be_bytes(SubSeq(input, 1, 4))


(***************************************************************************)
(* Header::new, Header::with_unknown_size and parse_header                 *)
(***************************************************************************)
Header_new(id, header_size, body_size) ==
    [id |-> id, header_size |-> header_size, body_size |-> body_size,
     size |-> header_size + body_size, position |-> None]

Header_with_unknown_size(id, header_size) ==
    [id |-> id, header_size |-> header_size, body_size |-> None,
     size |-> None, position |-> None]

\* Mutation of parse_header: unknown size is accepted for every id
parse_header_any_unknown(inp) ==
    LET initial_len == Len(inp)
        idr == parse_id(inp)
    IN  IF ~idr.ok THEN Err(idr.err)
        ELSE
            LET szr == parse_varint(idr.rest) IN
            IF ~szr.ok THEN Err(szr.err)
            ELSE
                LET header_size == initial_len - Len(szr.rest) IN
                Ok(szr.rest,
                   IF szr.val # NoneU64
                   THEN Header_new(idr.val, header_size, from_be_bytes(szr.val))
                   ELSE Header_with_unknown_size(idr.val, header_size))

parse_header(inp) ==
    LET initial_len == Len(inp)
        idr == parse_id(inp)
    IN  IF ~idr.ok THEN Err(idr.err)
        ELSE
            LET szr == parse_varint(idr.rest) IN
            IF ~szr.ok THEN Err(szr.err)
            ELSE
                LET id        == idr.val
                    body_size == szr.val
                IN  IF body_size = NoneU64 /\ id # IdOf("Segment") /\ id # IdOf("Cluster")
                    THEN Err("ForbiddenUnknownSize")
                    ELSE
                        LET header_size == initial_len - Len(szr.rest) IN
                        Ok(szr.rest,
                           IF body_size # NoneU64
                           THEN Header_new(id, header_size, from_be_bytes(body_size))
                           ELSE Header_with_unknown_size(id, header_size))

(***************************************************************************)
(* Specification SpecHeader: parse_header applied to bounded inputs        *)
(***************************************************************************)
\* Header inputs: every prefix of id bytes ++ size VINT ++ at most
\* MaxHeaderTail body bytes
MaxHeaderTail == 1

HeaderIdBytes == {
    <<24, 83, 128, 103>>,   \* 18 53 80 67  Segment
    <<31, 67, 182, 117>>,   \* 1F 43 B6 75  Cluster
    <<26, 69, 223, 163>>,   \* 1A 45 DF A3  Ebml
    <<25, 171, 205, 239>>,  \* 19 AB CD EF  not in the catalog
    <<66, 134>>,            \* 42 86        EbmlVersion
    <<236>>,                \* EC           Void
    <<255>>,                \* FF           not in the catalog
    <<8, 0, 0, 0, 1>>,      \* 08 ..        width 5
    <<0>> }                 \* 00

HeaderSizeBytes == {
    <<128>>,                                    \* 80  size 0
    <<133>>,                                    \* 85  size 5
    <<255>>,                                    \* FF  unknown, width 1
    <<127, 255>>,                               \* 7F FF  unknown, width 2
    <<64, 2>>,                                  \* 40 02  size 2, width 2
    <<31, 255, 255, 254>>,                      \* 1F FF FF FE  largest known width 4
    <<1, 255, 255, 255, 255, 255, 255, 255>>,   \* unknown, width 8
    <<1, 0, 0, 0, 0, 0, 1, 0>>,                 \* size 256, width 8
    <<0, 255>> }                                \* 00  invalid VINT

Prefixes(s) == {SubSeq(s, 1, n) : n \in 0..Len(s)}

HeaderInputs ==
    UNION {Prefixes(i \o z \o t) :
              i \in HeaderIdBytes, z \in HeaderSizeBytes,
              t \in SeqsUpTo({0, 255}, MaxHeaderTail)}

InitHeader ==
    /\ input \in HeaderInputs
    /\ result = NoResult
    /\ pc = "call"
    /\ Idle

CallParseHeader ==
    /\ pc = "call"
    /\ result' = parse_header(input)
    /\ pc' = "parse_header"
    /\ UNCHANGED <<input, show_position, read_buffer, position, elements, trees,
                   overflow_checks, driver_vars>>

NextHeader == CallParseHeader

SpecHeader == InitHeader /\ [][NextHeader]_vars

(***************************************************************************)
(* C7: parse_header succeeds with an absent body_size only for Segment and *)
(* Cluster; for every other id, known or Unknown(raw), a complete all-ones *)
(* size VINT fails with ForbiddenUnknownSize. On success header_size is    *)
(* the number of bytes consumed (id width plus size width), size is        *)
(* header_size + body_size when body_size is known and absent otherwise,   *)
(* and position is absent.                                                 *)
(***************************************************************************)
C7_HeaderUnknownSize ==
    pc = "parse_header" =>
    /\ (result.ok /\ result.val.body_size = None) =>
          result.val.id.name \in {"Segment", "Cluster"}
    /\ (input # <<>> /\ LeadingZeros(input[1]) < 4) =>
          LET w    == LeadingZeros(input[1]) + 1
              rest == Tail_(input, w)
          IN  (/\ Len(input) > w
               /\ rest[1] # 0
               /\ Len(rest) >= LeadingZeros(rest[1]) + 1
               /\ AllOnesVint(rest, LeadingZeros(rest[1]))
               /\ SubSeq(input, 1, w) \notin {<<24, 83, 128, 103>>, <<31, 67, 182, 117>>})
              => IsErr(result, "ForbiddenUnknownSize")
    /\ result.ok =>
          LET h  == result.val
              iw == LeadingZeros(input[1]) + 1
              sw == LeadingZeros(input[iw + 1]) + 1
          IN  /\ h.header_size = Len(input) - Len(result.rest)
              /\ h.header_size = iw + sw
              /\ result.rest = Tail_(input, iw + sw)
              /\ h.body_size # None => h.size = h.header_size + h.body_size
              /\ h.body_size = None => h.size = None
              /\ h.position = None

\* An id outside the catalog with an 8-byte all-ones size is rejected
C7_Witness ==
    /\ pc = "parse_header"
    /\ Len(input) >= 12
    /\ SubSeq(input, 1, 4) = <<25, 171, 205, 239>>
    /\ input[5] = 1
    /\ IsErr(result, "ForbiddenUnknownSize")


(***************************************************************************)
(* Body interpreter: parse_int, parse_float, parse_string, parse_date,     *)
(* parse_binary, the block decoders and BinaryValue::new.                  *)
(* Integer values are kept as the 8 bytes of value_buffer (the u64 or i64  *)
(* whose big-endian encoding they are); a binary payload is kept as its    *)
(* bytes.                                                                  *)
(***************************************************************************)
\* Mutation of parse_int: a body whose first bit is set is sign-extended
parse_int_sign_extending(header, inp) ==
    IF header.body_size = None THEN Err("ForbiddenUnknownSize")
    ELSE IF header.body_size > 8 THEN Err("ForbiddenIntegerSize")
    ELSE
        LET taken == take(header.body_size, inp) IN
        IF ~taken.ok THEN Err(taken.err)
        ELSE IF taken.val # <<>> /\ taken.val[1] >= 128
             THEN Ok(taken.rest, Repeat(255, 8 - Len(taken.val)) \o taken.val)
             ELSE Ok(taken.rest, PadLeft(taken.val, 8))

\* Mutation of parse_int: the body is taken before its size is checked
parse_int_take_first(header, inp) ==
    IF header.body_size = None THEN Err("ForbiddenUnknownSize")
    ELSE
        LET taken == take(header.body_size, inp) IN
        IF ~taken.ok THEN Err(taken.err)
        ELSE IF header.body_size > 8 THEN Err("ForbiddenIntegerSize")
        ELSE Ok(taken.rest, PadLeft(taken.val, 8))

parse_int(header, inp) ==
    IF header.body_size = None THEN Err("ForbiddenUnknownSize")
    ELSE IF header.body_size > 8 THEN Err("ForbiddenIntegerSize")
    ELSE
        LET taken == take(header.body_size, inp) IN
        IF ~taken.ok THEN Err(taken.err)
        ELSE Ok(taken.rest, PadLeft(taken.val, 8))

\* The f64 is denoted by the IEEE-754 bits it is read from
parse_float(header, inp) ==
    IF header.body_size = None THEN Err("ForbiddenUnknownSize")
    ELSE IF header.body_size = 4 \/ header.body_size = 8 THEN
        LET taken == take(header.body_size, inp) IN
        IF ~taken.ok THEN Err(taken.err)
        ELSE Ok(taken.rest, [from |-> IF header.body_size = 4 THEN "f32" ELSE "f64",
                             bits |-> taken.val])
    ELSE IF header.body_size = 0 THEN
        Ok(inp, [from |-> "f64", bits |-> Repeat(0, 8)])
    ELSE Err("ForbiddenFloatSize")

\* String::from_utf8 accepts exactly the well-formed UTF-8 sequences
Cont(b) == 128 <= b /\ b <= 191

RECURSIVE ValidUtf8(_)
ValidUtf8(s) ==
    IF s = <<>> THEN TRUE
    ELSE
        LET b == s[1]
            n == Len(s)
        IN  IF b < 128 THEN ValidUtf8(Tail_(s, 1))
            ELSE IF 194 <= b /\ b <= 223 THEN
                n >= 2 /\ Cont(s[2]) /\ ValidUtf8(Tail_(s, 2))
            ELSE IF 224 <= b /\ b <= 239 THEN
                /\ n >= 3
                /\ Cont(s[2])
                /\ Cont(s[3])
                /\ b = 224 => s[2] >= 160
                /\ b = 237 => s[2] <= 159
                /\ ValidUtf8(Tail_(s, 3))
            ELSE IF 240 <= b /\ b <= 244 THEN
                /\ n >= 4
                /\ Cont(s[2])
                /\ Cont(s[3])
                /\ Cont(s[4])
                /\ b = 240 => s[2] >= 144
                /\ b = 244 => s[2] <= 143
                /\ ValidUtf8(Tail_(s, 4))
            ELSE FALSE

\* str::trim_end_matches('\0')
RECURSIVE trim_end_nul(_)
trim_end_nul(s) ==
    IF s # <<>> /\ s[Len(s)] = 0 THEN trim_end_nul(SubSeq(s, 1, Len(s) - 1)) ELSE s

parse_string(header, inp) ==
    IF header.body_size = None THEN Err("ForbiddenUnknownSize")
    ELSE
        LET taken == take(header.body_size, inp) IN
        IF ~taken.ok THEN Err(taken.err)
        ELSE IF ~ValidUtf8(taken.val) THEN Err("Utf8")
        ELSE Ok(taken.rest, trim_end_nul(taken.val))

\* Mutation of parse_binary: the payload is returned with the input it was
\* taken from
parse_binary_keeping_input(header, inp) ==
    IF header.body_size = None THEN Err("ForbiddenUnknownSize")
    ELSE
        LET taken == take(header.body_size, inp) IN
        IF ~taken.ok THEN Err(taken.err) ELSE Ok(inp, taken.val)

parse_binary(header, inp) ==
    IF header.body_size = None THEN Err("ForbiddenUnknownSize")
    ELSE
        LET taken == take(header.body_size, inp) IN
        IF ~taken.ok THEN Err(taken.err) ELSE taken

\* i64::MAX - nanos_2001 as big-endian bytes (nanos_2001 = 978307200 * 10^9)
DateSumLimit == <<114, 108, 90, 200, 238, 202, 255, 255>>

\* a > b for two u64 given by their big-endian bytes
RECURSIVE GreaterBytes(_, _)
GreaterBytes(a, b) ==
    IF a = <<>> THEN FALSE
    ELSE IF a[1] # b[1] THEN a[1] > b[1]
    ELSE GreaterBytes(Tail_(a, 1), Tail_(b, 1))

\* The instant is denoted by the i64 nanoseconds since 2001 it is computed
\* from; wrapped tells that the i64 sum with nanos_2001 wrapped around.
\* Every i64 sum divided by 10^9 is inside the range of from_timestamp_opt.
parse_date(header, inp) ==
    LET r == parse_int(header, inp) IN
    IF ~r.ok THEN Err(r.err)
    ELSE
        LET timestamp_nanos_to_2001 == r.val
            overflows == /\ timestamp_nanos_to_2001[1] < 128
                         /\ GreaterBytes(timestamp_nanos_to_2001, DateSumLimit)
        IN  IF overflows /\ overflow_checks THEN Panic
            ELSE Ok(r.rest, [nanos_to_2001 |-> timestamp_nanos_to_2001,
                             wrapped |-> overflows])

parse_i16(inp) ==
    LET taken == take(2, inp) IN
    IF ~taken.ok THEN Err(taken.err)
    ELSE LET u == taken.val[1] * 256 + taken.val[2]
         IN  Ok(taken.rest, IF u >= 32768 THEN u - 65536 ELSE u)

\* bit i of a byte
Bit(flags, i) == (flags \div (2 ^ i)) % 2

is_invisible(flags) == Bit(flags, 3) # 0

get_lacing(flags) ==
    LET v == (flags \div 2) % 4 IN
    IF v = 1 THEN "Xiph"
    ELSE IF v = 3 THEN "Ebml"
    ELSE IF v = 2 THEN "FixedSize"
    ELSE "None"

\* The part parse_block and parse_simple_block share; keyframe and
\* discardable are read by parse_simple_block only
parse_block_fields(inp, simple) ==
    LET block_of(tr, ts, flags) ==
            LET common == [track_number |-> tr.val,
                           timestamp    |-> ts.val,
                           invisible    |-> is_invisible(flags),
                           lacing       |-> get_lacing(flags)]
            IN  IF simple
                THEN common @@ [keyframe    |-> Bit(flags, 7) # 0,
                                discardable |-> Bit(flags, 0) # 0]
                ELSE common
        \* num_frames + 1 in u8
        with_frames(block, nb) ==
            IF ~nb.ok THEN Err(nb.err)
            ELSE IF nb.val[1] + 1 > 255 /\ overflow_checks THEN Panic
            ELSE Ok(nb.rest, block @@ [num_frames |-> (nb.val[1] + 1) % 256])
        after_flags(tr, ts, fl) ==
            IF ~fl.ok THEN Err(fl.err)
            ELSE IF get_lacing(fl.val[1]) # "None"
            THEN with_frames(block_of(tr, ts, fl.val[1]), take(1, fl.rest))
            ELSE Ok(fl.rest, block_of(tr, ts, fl.val[1]) @@ [num_frames |-> None])
        after_timestamp(tr, ts) ==
            IF ~ts.ok THEN Err(ts.err) ELSE after_flags(tr, ts, take(1, ts.rest))
        after_track_number(tr) ==
            IF ~tr.ok THEN Err(tr.err)
            ELSE IF tr.val = NoneU64 THEN Err("MissingTrackNumber")
            ELSE after_timestamp(tr, parse_i16(tr.rest))
    IN  after_track_number(parse_varint(inp))

parse_block(inp) == parse_block_fields(inp, FALSE)

parse_simple_block(inp) == parse_block_fields(inp, TRUE)

\* BinaryValue::new
BinaryValue_new(id, value) ==
    LET tagged(r, variant, field) ==
            IF ~r.ok THEN Err(r.err)
            ELSE [ok |-> TRUE, val |-> (field :> r.val) @@ [variant |-> variant]]
    IN  IF id.name = "SeekId" THEN tagged(parse_id(value), "SeekId", "id")
        ELSE IF id.name = "SimpleBlock" THEN
            tagged(parse_simple_block(value), "SimpleBlock", "block")
        ELSE IF id.name = "Block" THEN tagged(parse_block(value), "Block", "block")
        ELSE IF id.name = "Void" THEN [ok |-> TRUE, val |-> [variant |-> "Void"]]
        ELSE [ok |-> TRUE, val |-> [variant |-> "Standard", bytes |-> value]]

Body(kind, value) == [kind |-> kind, value |-> value]

Body_Master == [kind |-> "Master"]

Body_Corrupted == Body("Binary", [variant |-> "Corrupted"])

parse_body(inp, header) ==
    LET element_type == get_type(header.id)
        \* map(|value| Body::X(value)) over the parser's result
        body_of(r) ==
            IF ~r.ok THEN Err(r.err) ELSE Ok(r.rest, Body(element_type, r.val))
        binary_of(r, v) ==
            IF ~v.ok THEN Err(v.err) ELSE Ok(r.rest, Body("Binary", v.val))
        binary(r) ==
            IF ~r.ok THEN Err(r.err) ELSE binary_of(r, BinaryValue_new(header.id, r.val))
    IN  IF element_type = "Master" THEN Ok(inp, Body_Master)
        ELSE IF element_type \in {"Unsigned", "Signed"} THEN body_of(parse_int(header, inp))
        ELSE IF element_type = "Float" THEN body_of(parse_float(header, inp))
        ELSE IF element_type \in {"String", "Utf8"} THEN body_of(parse_string(header, inp))
        ELSE IF element_type = "Date" THEN body_of(parse_date(header, inp))
        ELSE binary(parse_binary(header, inp))

(***************************************************************************)
(* parse_element                                                           *)
(***************************************************************************)
parse_element(original_input) ==
    LET element_of(h, b) ==
            IF ~b.ok THEN Err(b.err)
            ELSE Ok(b.rest, [header |-> h.val, body |-> b.val])
        body_after(h) ==
            IF ~h.ok THEN Err(h.err) ELSE element_of(h, parse_body(h.rest, h.val))
    IN  body_after(parse_header(original_input))

(***************************************************************************)
(* find_valid_element and parse_element_or_skip_corrupted                  *)
(***************************************************************************)
SYNC_ELEMENT_IDS ==
    <<IdOf("Cluster"), IdOf("Ebml"), IdOf("Segment"), IdOf("SeekHead"), IdOf("Info"),
      IdOf("Tracks"), IdOf("Cues"), IdOf("Attachments"), IdOf("Chapters"), IdOf("Tags")>>

SYNC_ID_LEN == 4

\* u32::to_be_bytes
to_be_bytes(v) ==
    <<(v \div 16777216) % 256, (v \div 65536) % 256, (v \div 256) % 256, v % 256>>

\* Mutation of scan_windows: the skipped bytes are reported as the header
\* of the Corrupted element, its body being empty
RECURSIVE scan_windows_as_header(_, _)
scan_windows_as_header(inp, offset) ==
    IF offset + SYNC_ID_LEN > Len(inp) THEN Err("ValidElementNotFound")
    ELSE
        LET window == SubSeq(inp, offset + 1, offset + SYNC_ID_LEN) IN
        IF \E i \in 1..Len(SYNC_ELEMENT_IDS) :
               window = to_be_bytes(get_value(SYNC_ELEMENT_IDS[i]))
        THEN Ok(Tail_(inp, offset),
                [header |-> Header_new(Id_corrupted, offset, 0), body |-> Body_Corrupted])
        ELSE scan_windows_as_header(inp, offset + 1)

\* input.windows(SYNC_ID_LEN).enumerate() from a given offset on; the inner
\* loop over SYNC_ELEMENT_IDS returns at the first id equal to the window
RECURSIVE scan_windows(_, _)
scan_windows(inp, offset) ==
    IF offset + SYNC_ID_LEN > Len(inp) THEN Err("ValidElementNotFound")
    ELSE
        LET window == SubSeq(inp, offset + 1, offset + SYNC_ID_LEN) IN
        IF \E i \in 1..Len(SYNC_ELEMENT_IDS) :
               window = to_be_bytes(get_value(SYNC_ELEMENT_IDS[i]))
        THEN Ok(Tail_(inp, offset),
                [header |-> Header_new(Id_corrupted, 0, offset), body |-> Body_Corrupted])
        ELSE scan_windows(inp, offset + 1)

\* Mutation of find_valid_element: the ids are tried in priority order and
\* the first id that occurs anywhere decides the offset
RECURSIVE first_offset_of(_, _, _)
first_offset_of(inp, id_bytes, offset) ==
    IF offset + SYNC_ID_LEN > Len(inp) THEN None
    ELSE IF SubSeq(inp, offset + 1, offset + SYNC_ID_LEN) = id_bytes THEN offset
    ELSE first_offset_of(inp, id_bytes, offset + 1)

RECURSIVE scan_ids(_, _)
scan_ids(inp, i) ==
    IF i > Len(SYNC_ELEMENT_IDS) THEN Err("ValidElementNotFound")
    ELSE
        LET offset == first_offset_of(inp, to_be_bytes(get_value(SYNC_ELEMENT_IDS[i])), 0) IN
        IF offset # None
        THEN Ok(Tail_(inp, offset),
                [header |-> Header_new(Id_corrupted, 0, offset), body |-> Body_Corrupted])
        ELSE scan_ids(inp, i + 1)

find_valid_element_by_priority(inp) == scan_ids(inp, 1)

find_valid_element(inp) == scan_windows(inp, 0)

\* Mutation of parse_element_or_skip_corrupted: the scanner runs first and
\* the element parser only when no SYNC id is found
skip_corrupted_or_parse_element(inp) ==
    LET or_else(r) == IF r.ok THEN r ELSE parse_element(inp)
    IN  or_else(find_valid_element(inp))

\* parse_element(input).or_else(|_| find_valid_element(input)); a panic is
\* not an Err and unwinds through or_else
parse_element_or_skip_corrupted(inp) ==
    LET or_else(r) == IF r.ok \/ r = Panic THEN r ELSE find_valid_element(inp)
    IN  or_else(parse_element(inp))


(***************************************************************************)
(* Specification SpecScan: find_valid_element applied to bounded inputs    *)
(***************************************************************************)
\* The big-endian encodings of the ten SYNC ids
SyncEncodings == {
    <<31, 67, 182, 117>>,   \* 1F 43 B6 75  Cluster
    <<26, 69, 223, 163>>,   \* 1A 45 DF A3  Ebml
    <<24, 83, 128, 103>>,   \* 18 53 80 67  Segment
    <<17, 77, 155, 116>>,   \* 11 4D 9B 74  SeekHead
    <<21, 73, 169, 102>>,   \* 15 49 A9 66  Info
    <<22, 84, 174, 107>>,   \* 16 54 AE 6B  Tracks
    <<28, 83, 187, 107>>,   \* 1C 53 BB 6B  Cues
    <<25, 65, 164, 105>>,   \* 19 41 A4 69  Attachments
    <<16, 67, 167, 112>>,   \* 10 43 A7 70  Chapters
    <<18, 84, 195, 103>> }  \* 12 54 C3 67  Tags

\* Inputs are concatenations of at most MaxScanChunks chunks: a SYNC id, or
\* one byte (some of them the first or last byte of a SYNC id)
MaxScanChunks == 3

ScanChunks == SyncEncodings \cup {<<24>>, <<31>>, <<103>>, <<0>>, <<83, 128>>}

InitScan ==
    /\ input \in ChunkSeqs(ScanChunks, MaxScanChunks)
    /\ result = NoResult
    /\ pc = "call"
    /\ Idle

CallFindValidElement ==
    /\ pc = "call"
    /\ result' = find_valid_element(input)
    /\ pc' = "find_valid_element"
    /\ UNCHANGED <<input, show_position, read_buffer, position, elements, trees,
                   overflow_checks, driver_vars>>

NextScan == CallFindValidElement

SpecScan == InitScan /\ [][NextScan]_vars

\* The offsets at which a 4-byte window of s is the encoding of a SYNC id
SyncOffsets(s) ==
    {o \in 0..(Len(s) - 4) : SubSeq(s, o + 1, o + 4) \in SyncEncodings}

(***************************************************************************)
(* C4: find_valid_element succeeds iff some 4-byte window of the input is  *)
(* the big-endian encoding of one of the ten SYNC ids; the skip count it   *)
(* reports (the Corrupted element's body_size) is then the smallest offset *)
(* of a SYNC id, and otherwise (also for inputs shorter than 4 bytes) it   *)
(* fails with ValidElementNotFound.                                        *)
(***************************************************************************)
C4_ScanSmallestOffset ==
    pc = "find_valid_element" =>
    /\ result.ok <=> SyncOffsets(input) # {}
    /\ result.ok =>
          /\ result.val.header.body_size \in SyncOffsets(input)
          /\ \A o \in SyncOffsets(input) : result.val.header.body_size <= o
    /\ ~result.ok => IsErr(result, "ValidElementNotFound")

\* A lower-priority id (Segment) occurs before a higher-priority one (Cluster)
\* and after some garbage: the skip count is the offset of the Segment id
C4_Witness ==
    /\ pc = "find_valid_element"
    /\ input = <<0, 24, 83, 128, 103, 31, 67, 182, 117>>
    /\ result.ok
    /\ result.val.header.body_size = 1


(***************************************************************************)
(* Tree builder: Id::can_be_children_of and build_element_trees            *)
(***************************************************************************)
\* Mutation of can_be_children_of: only (Cluster, Cluster) is excluded
can_be_children_of_but_cluster(self, other) ==
    ~(self.name = "Cluster" /\ other.name = "Cluster")

can_be_children_of(self, other) ==
    ~(\/ (self.name = "Cluster" /\ other.name = "Cluster")
      \/ self.name = "Ebml")

\* size_remaining of an unknown-size Master (usize::MAX), and of a budget
\* that wrapped around below zero: no element sequence of the model uses it up
Unbounded == -1

\* size_remaining -= amount, in usize
sub_remaining(size_remaining, amount) ==
    IF size_remaining = Unbounded THEN [ok |-> TRUE, val |-> Unbounded]
    ELSE IF amount <= size_remaining THEN [ok |-> TRUE, val |-> size_remaining - amount]
    ELSE IF overflow_checks THEN Panic
    ELSE [ok |-> TRUE, val |-> Unbounded]

\* Mutation of collect_children: an inadmissible next element is skipped
\* (index is not moved back before the break)
RECURSIVE collect_children_skipping(_, _, _, _, _)
collect_children_skipping(elems, element, index, size_remaining, children) ==
    IF size_remaining = 0 THEN [ok |-> TRUE, children |-> children, index |-> index]
    ELSE IF index + 1 > Len(elems) THEN
        [ok |-> TRUE, children |-> children, index |-> index + 1]
    ELSE
        LET next_child == elems[index + 1] IN
        IF ~can_be_children_of(next_child.header.id, element.header.id)
        THEN [ok |-> TRUE, children |-> children, index |-> index + 1]
        ELSE IF next_child.body # Body_Master /\ next_child.header.size = None THEN Panic
        ELSE
            LET amount == IF next_child.body = Body_Master
                          THEN next_child.header.header_size
                          ELSE next_child.header.size
                left   == sub_remaining(size_remaining, amount)
            IN  IF ~left.ok THEN Panic
                ELSE collect_children_skipping(elems, element, index + 1, left.val,
                                               Append(children, next_child))

\* The inner while loop of build_element_trees: index is the 1-based place
\* of the last element looked at; returns the children and the final index
RECURSIVE collect_children(_, _, _, _, _)
collect_children(elems, element, index, size_remaining, children) ==
    IF size_remaining = 0 THEN [ok |-> TRUE, children |-> children, index |-> index]
    ELSE IF index + 1 > Len(elems) THEN
        \* Elements have ended before reaching the size of the master element
        [ok |-> TRUE, children |-> children, index |-> index + 1]
    ELSE
        LET next_child == elems[index + 1] IN
        IF ~can_be_children_of(next_child.header.id, element.header.id)
        THEN [ok |-> TRUE, children |-> children, index |-> index]
        ELSE IF next_child.body # Body_Master /\ next_child.header.size = None
        THEN Panic  \* expect("Only Master elements can have unknown size")
        ELSE
            LET amount == IF next_child.body = Body_Master
                          THEN next_child.header.header_size
                          ELSE next_child.header.size
                left   == sub_remaining(size_remaining, amount)
            IN  IF ~left.ok THEN Panic
                ELSE collect_children(elems, element, index + 1, left.val,
                                      Append(children, next_child))

\* The outer while loop, from the 1-based index on; build_trees_from and
\* the recursion on the children are mutually recursive
RECURSIVE build_trees_from(_, _, _)
build_trees_from(elems, index, acc) ==
    IF index > Len(elems) THEN [ok |-> TRUE, val |-> acc]
    ELSE
        LET element == elems[index] IN
        IF element.body = Body_Master THEN
            LET size_remaining == IF element.header.body_size = None THEN Unbounded
                                  ELSE element.header.body_size
                c == collect_children(elems, element, index, size_remaining, <<>>)
            IN  IF ~c.ok THEN Panic
                ELSE
                    LET sub == build_trees_from(c.children, 1, <<>>) IN
                    IF ~sub.ok THEN Panic
                    ELSE build_trees_from(elems, c.index + 1,
                            Append(acc, [kind |-> "Master", header |-> element.header,
                                         children |-> sub.val]))
        ELSE build_trees_from(elems, index + 1,
                              Append(acc, [kind |-> "Normal", element |-> element]))

build_element_trees(elems) == build_trees_from(elems, 1, <<>>)


(***************************************************************************)
(* The element loop parse_elements and main                                *)
(***************************************************************************)
\* Mutation of advance_position: a non-Master element advances by its body
advance_position_by_body(p, element) ==
    IF p = None THEN None
    ELSE IF element.body = Body_Master THEN p + element.header.header_size
    ELSE p + element.header.body_size

\* Mutation of advance_position: a Master with a known size advances the
\* position by its whole size
advance_position_by_size(p, element) ==
    IF p = None THEN None
    ELSE IF element.header.size # None THEN p + element.header.size
    ELSE p + element.header.header_size

\* position.map(|p| ...): the position of the next element
advance_position(p, element) ==
    IF p = None THEN None
    ELSE IF element.body = Body_Master THEN p + element.header.header_size
    ELSE p + element.header.size

\* Mutation of is_last: the loop stops after every element
is_last_always(new_read_buffer) == TRUE

\* if new_read_buffer.is_empty() { break; }
is_last(new_read_buffer) == new_read_buffer = <<>>

\* The loop gives up on an input once it has emitted MaxElements elements
MaxElements == 6

\* Inputs are concatenations of at most MaxLoopChunks of these chunks
MaxLoopChunks == 4

LoopChunks == {
    <<24, 83, 128, 103>>,   \* 18 53 80 67  Segment id
    <<31, 67, 182, 117>>,   \* 1F 43 B6 75  Cluster id
    <<236, 128>>,           \* EC 80     a Void element with an empty body
    <<66, 134, 129>>,       \* 42 86 81  the header of an EbmlVersion of one byte
    <<128>>,                \* 80        size 0; as an id, ChapterDisplay
    <<255>>,                \* FF        unknown size; as an id, not in the catalog
    <<0>> }                 \* 00        neither an id nor a VINT

Init ==
    /\ input \in ChunkSeqs(LoopChunks, MaxLoopChunks)
    /\ show_position \in BOOLEAN
    /\ overflow_checks \in BOOLEAN
    /\ read_buffer = input
    /\ position = IF show_position THEN 0 ELSE None
    /\ elements = <<>>
    /\ trees = <<>>
    /\ result = NoResult
    /\ pc = "loop"
    /\ NoDriver

\* One evaluation of the while-let condition and, when it matches, of the body
ParseElementsStep ==
    LET \* the body of the while-let, entered with Ok((new_read_buffer, element))
        loop_body(new_read_buffer, element) ==
            IF element.body # Body_Master /\ element.header.size = None THEN
                \* size.unwrap()
                /\ pc' = "panicked"
                /\ UNCHANGED <<read_buffer, position, elements>>
            ELSE
                /\ position' = advance_position(position, element)
                /\ elements' = Append(elements, element)
                /\ IF is_last(new_read_buffer)
                   THEN pc' = "parsed" /\ UNCHANGED read_buffer
                   ELSE pc' = "loop" /\ read_buffer' = new_read_buffer
        while_let(r) ==
            /\ result' = r
            /\ IF r = Panic THEN
                   /\ pc' = "panicked"
                   /\ UNCHANGED <<read_buffer, position, elements>>
               ELSE IF ~r.ok THEN
                   /\ pc' = "parsed"
                   /\ UNCHANGED <<read_buffer, position, elements>>
               ELSE
                   loop_body(r.rest, [r.val EXCEPT !.header.position = position])
    IN  /\ pc = "loop"
        /\ Len(elements) < MaxElements
        /\ while_let(parse_element_or_skip_corrupted(read_buffer))
        /\ UNCHANGED <<input, show_position, overflow_checks, trees, driver_vars>>

\* main without --linear-output: build_element_trees(&elements)
BuildTrees ==
    /\ pc = "parsed"
    /\ LET t == build_element_trees(elements) IN
       IF t.ok THEN trees' = t.val /\ pc' = "done"
       ELSE trees' = <<>> /\ pc' = "panicked"
    /\ UNCHANGED <<input, show_position, read_buffer, position, elements, result,
                   overflow_checks, driver_vars>>

\* main with --linear-output: the flat sequence is printed
PrintLinear ==
    /\ pc = "parsed"
    /\ pc' = "printed"
    /\ UNCHANGED <<input, show_position, read_buffer, position, elements, trees,
                   result, overflow_checks, driver_vars>>

Next == ParseElementsStep \/ BuildTrees \/ PrintLinear

Spec == Init /\ [][Next]_vars


(***************************************************************************)
(* Vocabulary of the element-loop properties                               *)
(***************************************************************************)
LoopFinished == pc \in {"parsed", "printed", "done"}

IsCorrupted(e) == e.header.id = Id_corrupted

\* The bytes an emitted element accounts for: header_size for a Master,
\* header_size + body_size for every other element
Extent(e) ==
    IF e.body = Body_Master THEN e.header.header_size
    ELSE e.header.header_size + e.header.body_size

RECURSIVE SumExtents(_)
SumExtents(es) == IF es = <<>> THEN 0 ELSE Extent(es[1]) + SumExtents(Tail(es))

\* parse_element accepts exactly the bytes of piece
ExactlyAccepted(piece) ==
    LET r == parse_element(piece) IN r.ok /\ r.rest = <<>>

\* s is a concatenation of byte strings each exactly accepted by parse_element
RECURSIVE WellFormedConcat(_)
WellFormedConcat(s) ==
    \/ s = <<>>
    \/ \E n \in 1..Len(s) :
          ExactlyAccepted(SubSeq(s, 1, n)) /\ WellFormedConcat(Tail_(s, n))

(***************************************************************************)
(* C1: for an input that is a concatenation of well-formed elements, the   *)
(* finished element loop has emitted no Corrupted element and the extents  *)
(* of the emitted elements (header_size for a Master, header_size +        *)
(* body_size otherwise) add up to the length of the input.                 *)
(***************************************************************************)
C1_ValidInputPartition ==
    (LoopFinished /\ WellFormedConcat(input)) =>
    /\ \A i \in 1..Len(elements) : ~IsCorrupted(elements[i])
    /\ SumExtents(elements) = Len(input)

\* Segment of unknown size, then an EbmlVersion with a one-byte body
C1_Witness ==
    /\ pc = "parsed"
    /\ input = <<24, 83, 128, 103, 255, 66, 134, 129, 0>>
    /\ Len(elements) = 2
    /\ elements[1].header.id = IdOf("Segment")
    /\ elements[1].header.size = None
    /\ elements[2].header.id = IdOf("EbmlVersion")
    /\ elements[2].header.size = 4

(***************************************************************************)
(* C2: for every input, when the element loop finishes every input byte is *)
(* covered by exactly one emitted element, undecodable ranges and the      *)
(* residue at end of input being Corrupted elements: the extents add up to *)
(* the length of the input.                                                *)
(***************************************************************************)
C2_EveryByteCovered ==
    LoopFinished => SumExtents(elements) = Len(input)

(***************************************************************************)
(* C3: when positions are requested, every emitted element's position is   *)
(* the offset of the first byte of its header (of the first skipped byte   *)
(* for a Corrupted element): the first position is 0, parsing the input    *)
(* from an element's position yields that element and ends where the next  *)
(* element's position is, and for every element that is not Corrupted      *)
(* parse_element at its position succeeds with the same id. Without        *)
(* show_position no position is set.                                       *)
(***************************************************************************)
C3_PositionsAreOffsets ==
    \A i \in 1..Len(elements) :
        LET e == elements[i]
            p == e.header.position
        IN  IF ~show_position THEN p = None
            ELSE
                /\ p # None
                /\ p <= Len(input)
                /\ i = 1 => p = 0
                /\ LET r == parse_element_or_skip_corrupted(Tail_(input, p)) IN
                   /\ r.ok
                   /\ [r.val EXCEPT !.header.position = p] = e
                   /\ i < Len(elements) =>
                         elements[i + 1].header.position = Len(input) - Len(r.rest)
                /\ ~IsCorrupted(e) =>
                      LET q == parse_element(Tail_(input, p)) IN
                      q.ok /\ q.val.header.id = e.header.id

\* A Segment, a Void at offset 5 (after a Master the position advances by
\* the header only), then a second Void at offset 7
C3_Witness ==
    /\ show_position
    /\ input = <<24, 83, 128, 103, 128, 236, 128, 236, 128>>
    /\ Len(elements) = 3
    /\ elements[1].header.id = IdOf("Segment")
    /\ elements[1].header.position = 0
    /\ elements[2].header.id = IdOf("Void")
    /\ elements[2].header.position = 5
    /\ elements[3].header.position = 7

(***************************************************************************)
(* C5: in the sequence emitted by the element loop no two consecutive      *)
(* elements are both Corrupted.                                            *)
(***************************************************************************)
C5_NoAdjacentCorrupted ==
    \A i \in 1..(Len(elements) - 1) :
        ~(IsCorrupted(elements[i]) /\ IsCorrupted(elements[i + 1]))

(***************************************************************************)
(* Specification SpecTree: build_element_trees applied to bounded flat     *)
(* sequences of elements                                                   *)
(***************************************************************************)
\* Flat sequences hold at most MaxTreeElements elements
MaxTreeElements == 4

MasterElement(name, header_size, body_size) ==
    [header |-> IF body_size = None
                THEN Header_with_unknown_size(IdOf(name), header_size)
                ELSE Header_new(IdOf(name), header_size, body_size),
     body |-> Body_Master]

TreeElements == {
    MasterElement("Ebml", 5, 4),
    MasterElement("Segment", 5, None),
    MasterElement("Segment", 5, 9),
    MasterElement("Cluster", 5, None),
    MasterElement("Cluster", 5, 2),
    MasterElement("Info", 5, 0),
    MasterElement("Info", 5, 6),
    [header |-> Header_new(IdOf("Void"), 2, 0), body |-> Body("Binary", [variant |-> "Void"])],
    [header |-> Header_new(IdOf("EbmlVersion"), 3, 1),
     body |-> Body("Unsigned", <<0, 0, 0, 0, 0, 0, 0, 1>>)],
    [header |-> Header_new(Id_corrupted, 0, 3), body |-> Body_Corrupted] }

InitTree ==
    /\ elements \in SeqsUpTo(TreeElements, MaxTreeElements)
    /\ overflow_checks \in BOOLEAN
    /\ input = <<>>
    /\ show_position = FALSE
    /\ read_buffer = <<>>
    /\ position = None
    /\ trees = <<>>
    /\ result = NoResult
    /\ pc = "parsed"
    /\ NoDriver

NextTree == BuildTrees

SpecTree == InitTree /\ [][NextTree]_vars

\* Stream-order flattening: a Branch is its header (a Master element)
\* followed by the flattening of its children, a Leaf is its element
RECURSIVE Flatten(_)
Flatten(forest) ==
    IF forest = <<>> THEN <<>>
    ELSE LET t == forest[1] IN
         (IF t.kind = "Master"
          THEN <<[header |-> t.header, body |-> Body_Master]>> \o Flatten(t.children)
          ELSE <<t.element>>) \o Flatten(Tail(forest))

RECURSIVE LeavesAreNotMaster(_)
LeavesAreNotMaster(forest) ==
    \A i \in 1..Len(forest) :
        IF forest[i].kind = "Master" THEN LeavesAreNotMaster(forest[i].children)
        ELSE forest[i].element.body # Body_Master

(***************************************************************************)
(* C6: the stream-order flattening of the forest build_element_trees       *)
(* returns equals the flat sequence it was given, no element dropped,      *)
(* duplicated or reordered; Branch nodes are exactly the Master-bodied     *)
(* elements and Leaf nodes all the others.                                 *)
(***************************************************************************)
C6_FlattenIsInput ==
    pc = "done" =>
    /\ Flatten(trees) = elements
    /\ LeavesAreNotMaster(trees)

\* Segment > Cluster > leaf, then a second Cluster that is not admitted
\* below the first and becomes its sibling under the Segment
C6_Witness ==
    /\ pc = "done"
    /\ Len(elements) = 4
    /\ Len(trees) = 1
    /\ trees[1].kind = "Master"
    /\ trees[1].header.id = IdOf("Segment")
    /\ Len(trees[1].children) = 2
    /\ trees[1].children[1].kind = "Master"
    /\ Len(trees[1].children[1].children) = 1
    /\ trees[1].children[2].header.id = IdOf("Cluster")


(***************************************************************************)
(* Specification SpecElement: parse_element and find_valid_element applied *)
(* to whole, truncated and damaged elements                                *)
(***************************************************************************)
\* The bytes of an id of the catalog
IdBytes(name) == BigEndian(IdOf(name).value)

\* An element with a one-byte size field declaring size bytes, and its body
ElementBytes(name, size, body) == IdBytes(name) \o <<128 + size>> \o body

\* Damaged input: an element that does not parse, or none, then a SYNC id
\* and the start of what follows it
DamagedInputs ==
    UNION {Prefixes(lead \o sync \o after) :
              lead  \in {<<>>, <<0>>, <<66, 134, 144, 1>>, <<236, 130, 0>>},
              sync  \in {IdBytes("Segment"), IdBytes("Cluster"), IdBytes("Ebml")},
              after \in {<<>>, <<255>>, <<128>>, <<0>>}}

\* Block payloads: track number, timestamp, flag byte and at most
\* MaxBlockTail further bytes (lace count, frame data)
MaxBlockTail == 1

\* 1-byte and 2-byte VINTs, and the 1-byte unknown sentinel
TrackNumbers == {<<129>>, <<64, 2>>, <<255>>}

Timestamps == {<<0, 1>>, <<255, 254>>, <<128, 0>>}

\* Every combination of the bits the decoder reads (7, 3, 2-1, 0), and two
\* bytes with the bits it does not read
FlagBytes ==
    {b0 + 2 * lacing + 8 * b3 + 128 * b7 :
        b0 \in {0, 1}, lacing \in 0..3, b3 \in {0, 1}, b7 \in {0, 1}} \cup {112, 255}

BlockBodies ==
    {tr \o ts \o <<fl>> \o tl :
        tr \in TrackNumbers, ts \in Timestamps, fl \in FlagBytes,
        tl \in SeqsUpTo({0, 1, 255}, MaxBlockTail)}

\* Payloads that end inside the block header
ShortBlockBodies ==
    UNION {Prefixes(tr \o ts) : tr \in TrackNumbers, ts \in Timestamps}

SeekIdBodies ==
    {<<>>, <<0>>, <<83>>, <<83, 171>>, <<236>>, <<236, 0>>, <<24, 83>>,
     <<24, 83, 128, 103>>}

\* Elements present in full (declared size = bytes present), and the same
\* with the last declared byte missing
WholeAndCut(name, bodies) ==
    UNION {{ElementBytes(name, Len(b), b), ElementBytes(name, Len(b) + 1, b)} :
              b \in bodies}

BinaryInputs ==
    WholeAndCut("SeekId", SeekIdBodies)
    \cup WholeAndCut("Block", BlockBodies \cup ShortBlockBodies)
    \cup WholeAndCut("SimpleBlock", BlockBodies \cup ShortBlockBodies)
    \cup WholeAndCut("Void", {<<>>, <<0>>})
    \cup WholeAndCut("Crc32", {<<>>, <<1, 2, 3, 4>>})

\* Integer, float and date elements declaring 0..MaxNumberSize body bytes, with
\* every number of them present
MaxNumberSize == 9

NumberPatterns(n) ==
    {Repeat(0, n), Repeat(255, n), [i \in 1..n |-> (i * 73) % 256]}

NumberInputsOf(name, n) ==
    UNION {Prefixes(ElementBytes(name, n, b) \o <<236>>) : b \in NumberPatterns(n)}

NumberInputs ==
    UNION {NumberInputsOf(name, n) :
              name \in {"EbmlVersion", "ReferenceBlock", "Duration", "DateUtc"},
              n \in 0..MaxNumberSize}

\* String (DocType, CodecId) and Utf8 (Title) elements: text with and
\* without trailing and inner NUL bytes, a two-byte character, ill-formed UTF-8
StringBodies ==
    {<<>>, <<97>>, <<97, 0>>, <<97, 0, 0>>, <<0>>, <<0, 97>>, <<97, 0, 98, 0>>,
     <<195, 169>>, <<195, 169, 0>>, <<255>>, <<195>>, <<97, 0, 255>>}

StringInputs ==
    WholeAndCut("DocType", StringBodies)
    \cup WholeAndCut("CodecId", StringBodies)
    \cup WholeAndCut("Title", StringBodies)

\* Master elements with a body: of a known size, whole and cut, and of
\* unknown size
MasterInputs ==
    WholeAndCut("Info", {<<>>, <<236, 128>>, <<66, 134, 129, 1>>})
    \cup {IdBytes(name) \o <<255>> \o body :
              name \in {"Segment", "Cluster"}, body \in {<<236, 128>>, <<0>>}}

\* DateUtc bodies of 8 bytes: the date of test_parse_date, the largest
\* offset whose sum with nanos_2001 fits an i64, the next one, i64::MAX and
\* i64::MIN
DateBodies ==
    {<<9, 118, 151, 189, 202, 201, 30, 0>>,
     DateSumLimit,
     <<114, 108, 90, 200, 238, 203, 0, 0>>,
     <<127>> \o Repeat(255, 7),
     <<128>> \o Repeat(0, 7)}

DateInputs == {ElementBytes("DateUtc", 8, b) : b \in DateBodies}

ElementInputs ==
    DamagedInputs \cup BinaryInputs \cup NumberInputs \cup StringInputs
    \cup MasterInputs \cup DateInputs

InitElement ==
    /\ input \in ElementInputs
    /\ overflow_checks \in BOOLEAN
    /\ show_position = FALSE
    /\ read_buffer = <<>>
    /\ position = None
    /\ elements = <<>>
    /\ trees = <<>>
    /\ result = NoResult
    /\ pc = "call"
    /\ NoDriver

CallParseElement ==
    /\ pc = "call"
    /\ result' = parse_element(input)
    /\ pc' = "parse_element"
    /\ UNCHANGED <<input, show_position, read_buffer, position, elements, trees,
                   overflow_checks, driver_vars>>

NextElement == CallParseElement \/ CallFindValidElement

SpecElement == InitElement /\ [][NextElement]_vars

\* The smallest offset at which a SYNC id occurs in s
FirstSyncOffset(s) ==
    CHOOSE o \in SyncOffsets(s) : \A p \in SyncOffsets(s) : o <= p

(***************************************************************************)
(* C11: on a hit at offset o find_valid_element returns the element with   *)
(* id Corrupted (no raw wire value), header_size 0, body_size o, size o,   *)
(* no position and body Binary(Corrupted), and the remaining input is the  *)
(* input from offset o on, starting with the SYNC id found; no element     *)
(* returned by parse_element has id Corrupted or body Binary(Corrupted).   *)
(***************************************************************************)
C11_CorruptedElementShape ==
    /\ (pc = "find_valid_element" /\ result.ok) =>
          LET o == FirstSyncOffset(input) IN
          /\ result.val.header = [id |-> Id_corrupted, header_size |-> 0,
                                  body_size |-> o, size |-> o, position |-> None]
          /\ get_value(result.val.header.id) = None
          /\ result.val.body = Body("Binary", [variant |-> "Corrupted"])
          /\ result.rest = Tail_(input, o)
          /\ Len(input) - Len(result.rest) = o
          /\ Len(result.rest) >= 4
          /\ SubSeq(result.rest, 1, 4) \in SyncEncodings
    /\ (pc = "parse_element" /\ result.ok) =>
          /\ result.val.header.id.name # "Corrupted"
          /\ result.val.header.id # Id_corrupted
          /\ ~(/\ result.val.body.kind = "Binary"
               /\ result.val.body.value.variant = "Corrupted")

\* An EbmlVersion declaring 16 bytes, then a Segment id: 4 bytes are skipped
C11_Witness ==
    /\ pc = "find_valid_element"
    /\ input = <<66, 134, 144, 1, 24, 83, 128, 103>>
    /\ result.ok
    /\ result.val.header.body_size = 4
    /\ result.rest = <<24, 83, 128, 103>>


\* s ends before the end of its header, or before the body bytes its header
\* declares
TruncatedMidElement(s) ==
    LET h == parse_header(s) IN
    \/ IsErr(h, "NeedData")
    \/ /\ h.ok
       /\ h.val.body_size # None
       /\ get_type(h.val.id) # "Master"
       /\ Len(h.rest) < h.val.body_size

(***************************************************************************)
(* C12: parse_element fails with NeedData only when the input ends before  *)
(* the end of the header or before the body bytes the header declares;     *)
(* when all bytes of the element are present it never returns NeedData,    *)
(* also for SeekId, Block and SimpleBlock bodies.                          *)
(***************************************************************************)
C12_NeedDataOnlyWhenTruncated ==
    (pc = "parse_element" /\ IsErr(result, "NeedData")) => TruncatedMidElement(input)


WithoutTrailingNuls(s) ==
    LET last == {i \in 1..Len(s) : s[i] # 0 /\ \A j \in (i + 1)..Len(s) : s[j] = 0}
    IN  IF last = {} THEN <<>> ELSE SubSeq(s, 1, CHOOSE i \in last : TRUE)

(***************************************************************************)
(* C14: for an element of type String the decoded value is the body with   *)
(* all trailing NUL bytes stripped, for an element of type Utf8 it is the  *)
(* body unchanged, trailing NUL bytes preserved; both consume exactly      *)
(* body_size bytes and fail on ill-formed UTF-8.                           *)
(***************************************************************************)
C14_StringVersusUtf8 ==
    pc = "parse_element" =>
    LET h == parse_header(input) IN
    (/\ h.ok
     /\ h.val.body_size # None
     /\ get_type(h.val.id) \in {"String", "Utf8"}
     /\ Len(h.rest) >= h.val.body_size) =>
        LET ty    == get_type(h.val.id)
            bytes == SubSeq(h.rest, 1, h.val.body_size)
        IN  IF ~ValidUtf8(bytes) THEN ~result.ok
            ELSE /\ result.ok
                 /\ result.rest = Tail_(h.rest, h.val.body_size)
                 /\ result.val.body.kind = ty
                 /\ ty = "String" => result.val.body.value = WithoutTrailingNuls(bytes)
                 /\ ty = "Utf8" => result.val.body.value = bytes


(***************************************************************************)
(* C15: a Date element whose body is shorter than 8 bytes, the empty body  *)
(* included, is rejected with InvalidDate; it is never decoded to a        *)
(* default epoch or to a zero-padded instant.                              *)
(***************************************************************************)
C15_ShortDateRejected ==
    pc = "parse_element" =>
    LET h == parse_header(input) IN
    (/\ h.ok
     /\ get_type(h.val.id) = "Date"
     /\ h.val.body_size # None
     /\ h.val.body_size < 8
     /\ Len(h.rest) >= h.val.body_size) => IsErr(result, "InvalidDate")


\* The input is a Block or SimpleBlock element whose declared body is present
IsBlockElement(s) ==
    LET h == parse_header(s) IN
    /\ h.ok
    /\ h.val.id.name \in {"Block", "SimpleBlock"}
    /\ h.val.body_size # None
    /\ Len(h.rest) >= h.val.body_size

\* The body of such an element
BlockPayload(s) ==
    LET h == parse_header(s) IN SubSeq(h.rest, 1, h.val.body_size)

\* Bits 2-1 of the flag byte
LacingBits(flags) == (flags \div 2) % 4

\* The payload holds a whole track-number VINT of width k+1, the timestamp,
\* the flag byte and, when the lacing bits are set, the lace-count byte
HoldsBlockHeader(payload) ==
    /\ payload # <<>>
    /\ payload[1] # 0
    /\ LET k == LeadingZeros(payload[1]) IN
       /\ Len(payload) >= k + 4
       /\ LacingBits(payload[k + 4]) # 0 => Len(payload) >= k + 5

SignedBigEndian16(hi, lo) ==
    IF hi >= 128 THEN hi * 256 + lo - 65536 ELSE hi * 256 + lo

(***************************************************************************)
(* C16: for a Block or SimpleBlock payload that starts with a known        *)
(* track-number VINT followed by the timestamp, the flag byte and (with    *)
(* lacing) the lace-count byte, the decoder reports the VINT value as      *)
(* track_number, the next two bytes as big-endian signed 16-bit timestamp, *)
(* invisible = bit 3 of the flag byte, lacing from bits 2-1 (01 Xiph,      *)
(* 11 Ebml, 10 FixedSize, 00 none), for a SimpleBlock also keyframe =      *)
(* bit 7 and discardable = bit 0, and num_frames exactly when lacing is    *)
(* present; the unknown sentinel as track number fails with                *)
(* MissingTrackNumber.                                                     *)
(***************************************************************************)
C16_BlockDecode ==
    (pc = "parse_element" /\ IsBlockElement(input)) =>
    LET payload == BlockPayload(input)
        simple  == parse_header(input).val.id.name = "SimpleBlock"
    IN  HoldsBlockHeader(payload) =>
        LET k     == LeadingZeros(payload[1])
            flags == payload[k + 4]
        IN  IF AllOnesVint(payload, k) THEN IsErr(result, "MissingTrackNumber")
            ELSE
                /\ result.ok
                /\ result.val.body.kind = "Binary"
                /\ result.val.body.value.variant = IF simple THEN "SimpleBlock" ELSE "Block"
                /\ LET block == result.val.body.value.block IN
                   /\ block.track_number = MarkerRemoved(payload, k)
                   /\ block.timestamp = SignedBigEndian16(payload[k + 2], payload[k + 3])
                   /\ block.invisible = ((flags \div 8) % 2 = 1)
                   /\ block.lacing = CASE LacingBits(flags) = 1 -> "Xiph"
                                       [] LacingBits(flags) = 3 -> "Ebml"
                                       [] LacingBits(flags) = 2 -> "FixedSize"
                                       [] OTHER -> "None"
                   /\ (block.num_frames # None) <=> (LacingBits(flags) # 0)
                   /\ simple =>
                         /\ block.keyframe = ((flags \div 128) % 2 = 1)
                         /\ block.discardable = (flags % 2 = 1)
                   /\ DOMAIN block =
                         {"track_number", "timestamp", "invisible", "lacing", "num_frames"}
                         \cup (IF simple THEN {"keyframe", "discardable"} ELSE {})

(***************************************************************************)
(* C17: when lacing is present, for every value n in 0..255 of the         *)
(* lace-count byte the block decoder reports num_frames = n + 1, n = 255   *)
(* included, without overflow, wrap-around or failure.                     *)
(***************************************************************************)
C17_NumFrames ==
    (pc = "parse_element" /\ IsBlockElement(input)) =>
    LET payload == BlockPayload(input) IN
    (/\ HoldsBlockHeader(payload)
     /\ ~AllOnesVint(payload, LeadingZeros(payload[1]))
     /\ LacingBits(payload[LeadingZeros(payload[1]) + 4]) # 0) =>
        /\ result.ok
        /\ result.val.body.value.block.num_frames =
              payload[LeadingZeros(payload[1]) + 5] + 1


\* The Branch nodes of a forest, at every depth
RECURSIVE Branches(_)
Branches(forest) ==
    UNION {IF forest[i].kind = "Master"
           THEN {forest[i]} \cup Branches(forest[i].children)
           ELSE {} : i \in 1..Len(forest)}

\* The ids of the elements below a Branch, at every depth
IdsBelow(branch) ==
    LET below == Flatten(branch.children)
    IN  {below[i].header.id : i \in 1..Len(below)}

\* One id of every kind: catalog ids, an unknown id, the Corrupted id
SomeIds ==
    {IdOf(Catalog[i].name) : i \in 1..Len(Catalog)}
    \cup {[name |-> "Unknown", value |-> 255], Id_corrupted}

(***************************************************************************)
(* C18: in every forest build_element_trees returns no Cluster element is  *)
(* anywhere below a Cluster Branch and no Ebml element is below any        *)
(* Branch; can_be_children_of holds for every (child, parent) pair except  *)
(* (Cluster, Cluster) and (Ebml, any).                                     *)
(***************************************************************************)
C18_ClusterAndEbmlAdmissibility ==
    /\ pc = "done" =>
          \A b \in Branches(trees) :
              /\ IdOf("Ebml") \notin IdsBelow(b)
              /\ b.header.id = IdOf("Cluster") => IdOf("Cluster") \notin IdsBelow(b)
    /\ \A child \in SomeIds, parent \in SomeIds :
          can_be_children_of(child, parent) <=>
              ~(\/ child = IdOf("Ebml")
                \/ (child = IdOf("Cluster") /\ parent = IdOf("Cluster")))

\* A Segment holding a Cluster with a leaf, and an Ebml that follows them:
\* the Ebml ends both Branches and is a root
C18_Witness ==
    /\ pc = "done"
    /\ Len(elements) = 4
    /\ Len(trees) = 2
    /\ trees[1].kind = "Master"
    /\ trees[1].header.id = IdOf("Segment")
    /\ Len(trees[1].children) = 1
    /\ trees[1].children[1].kind = "Master"
    /\ trees[1].children[1].header.id = IdOf("Cluster")
    /\ Len(trees[1].children[1].children) = 1
    /\ trees[2].kind = "Master"
    /\ trees[2].header.id = IdOf("Ebml")

(***************************************************************************)
(* C19: for every Branch with a known body_size in a forest the tree       *)
(* builder returns, header_size summed over the Master elements collected  *)
(* below it plus size summed over the other elements collected below it    *)
(* is at most the Branch's body_size.                                      *)
(***************************************************************************)
C19_BudgetNotOverrun ==
    pc = "done" =>
    \A b \in Branches(trees) :
        b.header.body_size # None =>
            SumExtents(Flatten(b.children)) <= b.header.body_size


\* The position the element after e is emitted at, by e alone
PositionAfter(e) ==
    e.header.position
        + (IF e.body = Body_Master THEN e.header.header_size ELSE e.header.size)

\* The emitted sequence is the one of the state before, or that one with one
\* more element at its end
EmittedInOrder ==
    \/ elements' = elements
    \/ /\ Len(elements') = Len(elements) + 1
       /\ SubSeq(elements', 1, Len(elements)) = elements

(***************************************************************************)
(* C20: the element loop only ever appends to the sequence it emits, and   *)
(* when positions are requested the first position is 0, every later       *)
(* position is the previous element's position plus its header_size if it  *)
(* is a Master and plus its size otherwise, and positions never decrease.  *)
(***************************************************************************)
C20_PositionsMonotone ==
    /\ [][EmittedInOrder]_vars
    /\ [](show_position =>
            /\ Len(elements) > 0 => elements[1].header.position = 0
            /\ \A i \in 1..Len(elements) - 1 :
                  /\ elements[i + 1].header.position = PositionAfter(elements[i])
                  /\ elements[i].header.position <= elements[i + 1].header.position)

\* A Void, a Cluster of unknown size, a Void: the positions are 0, 0 + 2 (a
\* whole element) and 2 + 5 (a Master's header)
C20_Witness ==
    /\ show_position
    /\ input = <<236, 128, 31, 67, 182, 117, 255, 236, 128>>
    /\ Len(elements) = 3
    /\ elements[1].header.id = IdOf("Void")
    /\ elements[1].header.position = 0
    /\ elements[2].body = Body_Master
    /\ elements[2].header.position = 2
    /\ elements[3].header.id = IdOf("Void")
    /\ elements[3].header.position = 7

(***************************************************************************)
(* Specification SpecDriver: the chunked driver parse_elements_from_file,  *)
(* a buffered read loop over a source: refill, parse, resync, emit.  The   *)
(* source is read through a buffer of buffer_size bytes; read_buffer is    *)
(* the view, the part of the buffer not yet consumed.  No input of the     *)
(* model holds a Binary body large enough to be skipped over, so that      *)
(* short_parse is parse_element and bytes_to_skip is 0.                    *)
(***************************************************************************)
\* The source is a concatenation of at most MaxDriverChunks of these chunks
MaxDriverChunks == 3

DriverChunks == {
    <<24, 83, 128, 103, 255>>,   \* a Segment of unknown size
    <<24, 83, 128, 103>>,        \* the id of a Segment
    <<236, 128>>,                \* a Void element with an empty body
    <<66, 134, 129, 1>>,         \* EbmlVersion = 1
    <<66, 134>>,                 \* the id of an EbmlVersion
    <<0>>,                       \* neither an id nor a VINT
    <<0, 0, 0>> }                \* a damaged range

\* The capacities of the buffer
MinBufferSize == 4

MaxBufferSize == 6

Min(a, b) == IF a <= b THEN a ELSE b

InitDriver ==
    /\ input \in ChunkSeqs(DriverChunks, MaxDriverChunks)
    /\ buffer_size \in MinBufferSize..MaxBufferSize
    /\ show_position \in BOOLEAN
    /\ overflow_checks = TRUE
    /\ read_buffer = <<>>
    /\ position = IF show_position THEN 0 ELSE None
    /\ elements = <<>>
    /\ trees = <<>>
    /\ result = NoResult
    /\ filled = 0
    /\ num_read = 0
    /\ end_of_file = FALSE
    /\ corrupt_mode = FALSE
    /\ source_offset = 0
    /\ pc = "read"

\* Corrupt-region coalescing: a Corrupted element that follows a Corrupted
\* element is merged into it, any other element is appended
coalesce(es, element) ==
    IF IsCorrupted(element) /\ es # <<>> /\ IsCorrupted(es[Len(es)])
    THEN LET last == es[Len(es)] IN
         [es EXCEPT ![Len(es)].header.header_size =
                        last.header.header_size + element.header.header_size,
                    ![Len(es)].header.body_size =
                        last.header.body_size + element.header.body_size,
                    ![Len(es)].header.size =
                        last.header.size + element.header.size]
    ELSE Append(es, element)

\* Mutation of short_or_corrupt: the scanner runs only after an error of the
\* element parser, corrupt_mode or not
short_or_corrupt_forgetful(view, corrupt) == parse_element_or_skip_corrupted(view)

\* short_or_corrupt(view, corrupt_mode): the resync scanner in corrupt mode,
\* the element parser otherwise
short_or_corrupt(view, corrupt) ==
    IF corrupt THEN find_valid_element(view) ELSE parse_element(view)

\* Step 1 and 2: read into buffer[filled..]; the source returns at least one
\* byte unless it is at its end or the buffer has no room
DriverRead ==
    /\ pc = "read"
    /\ LET avail == Min(buffer_size - filled, Len(input) - source_offset) IN
       \E n \in (IF avail = 0 THEN {0} ELSE 1..avail) :
           /\ num_read' = n
           /\ end_of_file' = (n = 0)
           /\ read_buffer' =
                  read_buffer \o SubSeq(input, source_offset + 1, source_offset + n)
           /\ source_offset' = source_offset + n
    /\ pc' = "parse"
    /\ UNCHANGED <<input, show_position, position, elements, trees, result,
                   overflow_checks, buffer_size, filled, corrupt_mode>>

\* Mutation of full_without_progress: a full buffer is left to the next read
full_without_progress_ignored(view_len, rest_len, n, capacity) == FALSE

\* filled == N /\ n > 0 /\ no progress
full_without_progress(view_len, rest_len, n, capacity) ==
    view_len = capacity /\ n > 0 /\ rest_len = view_len

\* Step 3: one turn of the inner loop on the view
DriverParse ==
    LET \* on success: stamp, advance position, append or merge
        emit(rest, element) ==
            /\ elements' = coalesce(elements, element)
            /\ position' = advance_position(position, element)
            /\ read_buffer' = rest
            /\ pc' = "parse"
        try(r) ==
            /\ result' = r
            /\ IF r = Panic THEN
                   /\ pc' = "panicked"
                   /\ UNCHANGED <<read_buffer, position, elements, corrupt_mode>>
               ELSE IF r.ok THEN
                   \* a scan that returned has not exhausted the view
                   /\ corrupt_mode' = FALSE
                   /\ emit(r.rest, [r.val EXCEPT !.header.position = position])
               ELSE IF r.err \in {"NeedData", "ValidElementNotFound"} THEN
                   \* the inner loop ends and the driver refills
                   /\ pc' = "compact"
                   /\ UNCHANGED <<read_buffer, position, elements, corrupt_mode>>
               ELSE
                   \* a structural error: resync on the same view
                   /\ corrupt_mode' = TRUE
                   /\ pc' = "parse"
                   /\ UNCHANGED <<read_buffer, position, elements>>
    IN  /\ pc = "parse"
        /\ try(short_or_corrupt(read_buffer, corrupt_mode))
        /\ UNCHANGED <<input, show_position, trees, overflow_checks, buffer_size,
                       filled, num_read, end_of_file, source_offset>>

\* Step 4 and 5: compact the unconsumed tail to the front of the buffer; at
\* the end of the source the residue is one final Corrupted element; a full
\* buffer that made no progress is fatal
DriverCompact ==
    LET residue ==
            [header |-> [Header_new(Id_corrupted, 0, Len(read_buffer))
                             EXCEPT !.position = position],
             body |-> Body_Corrupted]
    IN  /\ pc = "compact"
        /\ IF end_of_file THEN
               /\ pc' = "done"
               /\ filled' = 0
               /\ read_buffer' = <<>>
               /\ IF read_buffer # <<>>
                  THEN /\ elements' = coalesce(elements, residue)
                       /\ position' = advance_position(position, residue)
                  ELSE UNCHANGED <<elements, position>>
               /\ UNCHANGED result
           ELSE IF full_without_progress(filled + num_read, Len(read_buffer),
                                         num_read, buffer_size) THEN
               /\ pc' = "failed"
               /\ result' = Err("OutOfBufferSpace")
               /\ UNCHANGED <<filled, read_buffer, elements, position>>
           ELSE
               /\ pc' = "read"
               /\ filled' = Len(read_buffer)
               /\ UNCHANGED <<read_buffer, elements, position, result>>
        /\ UNCHANGED <<input, show_position, trees, overflow_checks, buffer_size,
                       num_read, end_of_file, corrupt_mode, source_offset>>

NextDriver == DriverRead \/ DriverParse \/ DriverCompact

SpecDriver == InitDriver /\ [][NextDriver]_vars

(***************************************************************************)
(* C21: when the inner loop of the chunked driver ends with the buffer     *)
(* completely full of unconsumed bytes, the driver's next step is the      *)
(* fatal error OutOfBufferSpace; it never reads with a full buffer (which  *)
(* would return no byte and look like the end of the source), it sees the  *)
(* end of the source only when every byte was read, and it reports success *)
(* only when the emitted elements account for every byte of the source.    *)
(***************************************************************************)
C21_OutOfBufferSpace ==
    /\ [][(pc = "compact" /\ Len(read_buffer) = buffer_size)
              => (pc' = "failed" /\ result' = Err("OutOfBufferSpace"))]_vars
    /\ [](pc = "failed" =>
              /\ result = Err("OutOfBufferSpace")
              /\ Len(read_buffer) = buffer_size
              /\ ~end_of_file)
    /\ [](pc = "read" => filled < buffer_size)
    /\ [](end_of_file => source_offset = Len(input))
    /\ [](pc = "done" =>
              /\ source_offset = Len(input)
              /\ SumExtents(elements) = Len(input))

\* After a Void element a damaged range fills the whole buffer and holds no
\* SYNC id: the driver fails while resynchronising
C21_Witness ==
    /\ pc = "failed"
    /\ result = Err("OutOfBufferSpace")
    /\ corrupt_mode
    /\ buffer_size = 4
    /\ read_buffer = <<0, 0, 0, 0>>
    /\ Len(elements) = 1
    /\ elements[1].header.id = IdOf("Void")

(***************************************************************************)
(* Specification SpecReader: BufferReader, a Reader over a byte vector.    *)
(* input is data, source_offset is pos, read_buffer is the destination     *)
(* buffer of read, num_read the num_to_read or num_to_skip of the last     *)
(* call and result its Status.                                             *)
(***************************************************************************)
\* The data of the reader is at most MaxDataLen bytes long
MaxDataLen == 4

DataBytes == {1, 2}

\* The destination buffer is ReaderBufferLen bytes long; a caller of read
\* passes a buffer that holds at least num_to_read bytes
ReaderBufferLen == 3

\* skip is called with 1..MaxSkip
MaxSkip == 5

\* GeneralStatus
OkCompleted == [status |-> "OkCompleted"]

OkPartial(n) == [status |-> "OkPartial", value |-> n]

EndOfFile == [status |-> "EndOfFile"]

\* Mutation of BufferReader_advance: a short read or skip is not reported
BufferReader_advance_silently(data, pos, expected) ==
    LET num_remaining == Len(data) - pos IN
    IF num_remaining # 0
    THEN LET num_actually == IF expected > num_remaining THEN num_remaining
                             ELSE expected
         IN  [actually |-> num_actually, pos |-> pos + num_actually,
              status |-> OkCompleted]
    ELSE [actually |-> 0, pos |-> pos, status |-> EndOfFile]

\* What read and skip share: the amount, the new pos and the Status
BufferReader_advance(data, pos, expected) ==
    LET num_remaining == Len(data) - pos IN
    IF num_remaining # 0
    THEN LET num_actually == IF expected > num_remaining THEN num_remaining
                             ELSE expected
         IN  [actually |-> num_actually,
              pos |-> pos + num_actually,
              status |-> IF num_actually # expected THEN OkPartial(num_actually)
                         ELSE OkCompleted]
    ELSE [actually |-> 0, pos |-> pos, status |-> EndOfFile]

\* buffer[..n].copy_from_slice(&self.data[self.pos..(self.pos + n)])
copy_from_slice(buffer, data, pos, n) ==
    SubSeq(data, pos + 1, pos + n) \o Tail_(buffer, n)

InitReader ==
    /\ input \in SeqsUpTo(DataBytes, MaxDataLen)
    /\ read_buffer = [i \in 1..ReaderBufferLen |-> 249 + i]
    /\ source_offset = 0
    /\ num_read = 0
    /\ result = NoResult
    /\ pc = "new"
    /\ buffer_size = 0
    /\ filled = 0
    /\ end_of_file = FALSE
    /\ corrupt_mode = FALSE
    /\ overflow_checks = TRUE
    /\ show_position = FALSE
    /\ position = None
    /\ elements = <<>>
    /\ trees = <<>>

\* BufferReader::read(num_to_read, buffer)
ReaderRead ==
    /\ \E num_to_read \in 1..Len(read_buffer) :
           LET r == BufferReader_advance(input, source_offset, num_to_read) IN
           /\ num_read' = num_to_read
           /\ read_buffer' = copy_from_slice(read_buffer, input, source_offset, r.actually)
           /\ source_offset' = r.pos
           /\ result' = r.status
    /\ pc' = "read"
    /\ UNCHANGED <<input, show_position, position, elements, trees, overflow_checks,
                   buffer_size, filled, end_of_file, corrupt_mode>>

\* BufferReader::skip(num_to_skip)
ReaderSkip ==
    /\ \E num_to_skip \in 1..MaxSkip :
           LET r == BufferReader_advance(input, source_offset, num_to_skip) IN
           /\ num_read' = num_to_skip
           /\ source_offset' = r.pos
           /\ result' = r.status
    /\ pc' = "skip"
    /\ UNCHANGED <<input, show_position, read_buffer, position, elements, trees,
                   overflow_checks, buffer_size, filled, end_of_file, corrupt_mode>>

NextReader == ReaderRead \/ ReaderSkip

SpecReader == InitReader /\ [][NextReader]_vars

\* What the last call did to the reader: the amount min(n, L - pos) was added
\* to pos, the Status tells the amount, read copied that many bytes of data
\* to the front of the buffer and skip left the buffer alone
CallEffect ==
    LET n == num_read'
        amount == Min(n, Len(input) - source_offset)
    IN  /\ source_offset' = source_offset + amount
        /\ amount = n => result' = OkCompleted
        /\ (0 < amount /\ amount < n) => result' = OkPartial(amount)
        /\ source_offset = Len(input) =>
              (result' = EndOfFile /\ read_buffer' = read_buffer)
        /\ Len(read_buffer') = Len(read_buffer)
        /\ \A i \in 1..Len(read_buffer) :
              read_buffer'[i] =
                  IF pc' = "read" /\ i <= amount THEN input[source_offset + i]
                  ELSE read_buffer[i]

(***************************************************************************)
(* C22: every read(n, buf) and skip(n) of a BufferReader over data of      *)
(* length L advances the position by min(n, L - position) and returns      *)
(* OkCompleted when that is n, OkPartial(amount) when it is between 0 and  *)
(* n, EndOfFile when position = L, leaving position and buf alone; read    *)
(* copies data[position .. position + amount] to the front of buf and      *)
(* changes nothing else of it; the position stays within 0..L.             *)
(***************************************************************************)
C22_ReaderContract ==
    /\ [][pc' \in {"read", "skip"} => CallEffect]_vars
    /\ [](0 <= source_offset /\ source_offset <= Len(input))

\* A read of 3 bytes after a skip, with 2 bytes left: a partial read
C22_Witness ==
    /\ pc = "read"
    /\ input = <<1, 2, 2, 1>>
    /\ num_read = 3
    /\ result = OkPartial(2)
    /\ source_offset = 4
    /\ read_buffer = <<2, 1, 252>>

\* The n elements after elements[i] are admissible below it and their
\* accounted sizes use up its body_size exactly, no fewer of them doing so
ExactFill(i, n) ==
    /\ elements[i].body = Body_Master
    /\ elements[i].header.body_size # None
    /\ n >= 1
    /\ i + n <= Len(elements)
    /\ \A j \in i + 1..i + n :
          can_be_children_of(elements[j].header.id, elements[i].header.id)
    /\ SumExtents(SubSeq(elements, i + 1, i + n)) = elements[i].header.body_size
    /\ \A m \in 0..n - 1 :
          SumExtents(SubSeq(elements, i + 1, i + m)) < elements[i].header.body_size

(***************************************************************************)
(* C23: when the first element of the sequence given to                    *)
(* build_element_trees is a Master of known body_size that the accounted   *)
(* sizes of the next n admissible elements use up exactly, the builder     *)
(* returns a forest whose first Branch holds exactly those n elements      *)
(* below it and whose next root is the element after them; a Master of     *)
(* body_size 0 gets no children.                                           *)
(***************************************************************************)
C23_ExactFill ==
    (pc # "parsed" /\ elements # <<>> /\ elements[1].body = Body_Master) =>
        /\ elements[1].header.body_size = 0 =>
              (pc = "done" => trees[1].children = <<>>)
        /\ \A n \in 1..Len(elements) - 1 :
              ExactFill(1, n) =>
                  /\ pc = "done"
                  /\ trees[1].kind = "Master"
                  /\ Flatten(trees[1].children) = SubSeq(elements, 2, n + 1)
                  /\ Len(elements) > n + 1 =>
                        /\ Len(trees) >= 2
                        /\ Flatten(<<trees[2]>>)[1] = elements[n + 2]

\* The n elements after elements[i] are admissible below it and the last of
\* them accounts for more than what the others leave of its body_size
Overshoot(i, n) ==
    /\ elements[i].body = Body_Master
    /\ elements[i].header.body_size # None
    /\ n >= 1
    /\ i + n <= Len(elements)
    /\ \A j \in i + 1..i + n :
          can_be_children_of(elements[j].header.id, elements[i].header.id)
    /\ SumExtents(SubSeq(elements, i + 1, i + n)) > elements[i].header.body_size
    /\ SumExtents(SubSeq(elements, i + 1, i + n - 1)) < elements[i].header.body_size

(***************************************************************************)
(* C24: when the first element of the sequence is a Master whose remaining *)
(* budget is smaller than the accounted size of the next admissible        *)
(* element, the builder does not fail, that element is the last one below  *)
(* the Master's Branch and no later element is below it.                   *)
(***************************************************************************)
C24_OvershootEndsBranch ==
    (pc # "parsed" /\ elements # <<>>) =>
        \A n \in 1..Len(elements) - 1 :
            Overshoot(1, n) =>
                /\ pc = "done"
                /\ trees[1].kind = "Master"
                /\ Flatten(trees[1].children) = SubSeq(elements, 2, n + 1)

\* One step of the driver, seen from corrupt_mode
CorruptModeStep ==
    /\ (~corrupt_mode /\ corrupt_mode') =>
          /\ pc = "parse"
          /\ result' = parse_element(read_buffer)
          /\ ~result'.ok
          /\ result'.err # "NeedData"
          /\ read_buffer' = read_buffer
    /\ (corrupt_mode /\ ~corrupt_mode') =>
          /\ pc = "parse"
          /\ result' = find_valid_element(read_buffer)
          /\ result'.ok
          /\ read_buffer' # <<>>
    /\ pc # "parse" => corrupt_mode' = corrupt_mode
    /\ (corrupt_mode /\ pc = "parse") => result' = find_valid_element(read_buffer)
    /\ (corrupt_mode /\ elements' # elements) =>
          IsCorrupted(elements'[Len(elements')])
    /\ (pc = "parse" /\ ~corrupt_mode /\ parse_element(read_buffer) = Err("NeedData")) =>
          /\ ~corrupt_mode'
          /\ pc' = "compact"
          /\ elements' = elements
          /\ read_buffer' = read_buffer

(***************************************************************************)
(* C25: corrupt_mode of the chunked driver becomes true only when the      *)
(* element parser fails with an error other than NeedData, is kept by      *)
(* every refill and compaction, lets only the resync scanner run and only  *)
(* Corrupted elements be emitted while it is true, and becomes false only  *)
(* when a scan found a SYNC id and left a view that is not empty; NeedData *)
(* leaves it false and only ends the inner loop.                           *)
(***************************************************************************)
C25_CorruptMode == [][CorruptModeStep]_vars

\* One damaged byte was read alone and made the driver resynchronise; the
\* refill brought a Segment and the scan that found it ended corrupt mode
C25_Witness ==
    /\ pc = "parse"
    /\ ~corrupt_mode
    /\ filled = 1
    /\ input # <<>>
    /\ input[1] = 0
    /\ Len(elements) = 1
    /\ IsCorrupted(elements[1])
    /\ elements[1].header.body_size = 1
    /\ result = find_valid_element(<<0>> \o read_buffer)
    /\ SubSeq(read_buffer, 1, 4) = IdBytes("Segment")

(***************************************************************************)
(* C26: every turn of the element loop parse_elements that does not end    *)
(* the loop leaves a shorter read_buffer, and the loop never emits more    *)
(* elements than the input has bytes.                                      *)
(***************************************************************************)
C26_LoopTerminates ==
    /\ [][(pc = "loop" /\ pc' = "loop") => Len(read_buffer') < Len(read_buffer)]_vars
    /\ [](Len(elements) <= Len(input))

(***************************************************************************)
(* C27: an element returned by parse_element or by find_valid_element has  *)
(* consumed exactly header_size bytes of the input when its body is Master *)
(* and exactly header_size + body_size bytes otherwise; an element that is *)
(* not a Master has a known body_size and a known size, the sum of         *)
(* header_size and body_size.                                              *)
(***************************************************************************)
C27_ConsumedBytes ==
    (pc \in {"parse_element", "find_valid_element"} /\ result.ok) =>
        LET e == result.val
            consumed == Len(input) - Len(result.rest)
        IN  /\ result.rest = Tail_(input, consumed)
            /\ IF e.body = Body_Master
               THEN consumed = e.header.header_size
               ELSE /\ e.header.body_size # None
                    /\ e.header.size # None
                    /\ e.header.size = e.header.header_size + e.header.body_size
                    /\ consumed = e.header.size

\* An Info of two bytes holding a Void: parse_element stops after the header
C27_Witness ==
    /\ pc = "parse_element"
    /\ input = IdBytes("Info") \o <<130, 236, 128>>
    /\ result.ok
    /\ result.val.body = Body_Master
    /\ result.val.header.body_size = 2
    /\ result.rest = <<236, 128>>

\* The sign of i64::from_be_bytes(value_buffer): the first bit of the buffer
is_negative_i64(value_buffer) == value_buffer[1] >= 128

(***************************************************************************)
(* C28: the value of a Signed element of n <= 8 body bytes is read from    *)
(* the 8-byte buffer made of 8 - n zero bytes and the body, so that for    *)
(* n < 8 it is the unsigned big-endian value of the body and is not        *)
(* negative; a negative value comes from a body of 8 bytes only.           *)
(***************************************************************************)
C28_SignedZeroExtended ==
    (pc = "parse_element" /\ result.ok /\ result.val.body.kind = "Signed") =>
        LET header == result.val.header
            n      == header.body_size
            body   == SubSeq(input, header.header_size + 1, header.header_size + n)
            value  == result.val.body.value
        IN  /\ n <= 8
            /\ value = Repeat(0, 8 - n) \o body
            /\ n < 8 => ~is_negative_i64(value)
            /\ is_negative_i64(value) => (n = 8 /\ body[1] >= 128)

\* A ReferenceBlock whose body is the single byte FF is 255, not -1
C28_Witness ==
    /\ pc = "parse_element"
    /\ input = <<251, 129, 255>>
    /\ result.ok
    /\ result.val.body.kind = "Signed"
    /\ result.val.body.value = <<0, 0, 0, 0, 0, 0, 0, 255>>

(***************************************************************************)
(* C29: for a DateUtc element whose body the integer reader accepts,       *)
(* parse_element returns the instant that many nanoseconds after           *)
(* 2001-01-01T00:00:00Z, computed without overflow or wrap-around of the   *)
(* i64 sum with the offset of 2001, or the error InvalidDate.              *)
(***************************************************************************)
C29_DateSumInRange ==
    LET h == parse_header(input)
        accepted(v) ==
            v.ok =>
                \/ IsErr(result, "InvalidDate")
                \/ /\ result.ok
                   /\ result.val.body.kind = "Date"
                   /\ result.val.body.value.nanos_to_2001 = v.val
                   /\ ~result.val.body.value.wrapped
        date(r) ==
            (r.ok /\ r.val.id = IdOf("DateUtc")) => accepted(parse_int(r.val, r.rest))
    IN  pc = "parse_element" => date(h)

(***************************************************************************)
(* The earlier find_valid_element: for each SYNC id in turn, the first     *)
(* window equal to it inside the look-ahead input[..min_offset]            *)
(***************************************************************************)
\* The first offset of id_bytes in inp, or None: the inner for loop with its
\* break
RECURSIVE first_window_of(_, _, _)
first_window_of(inp, id_bytes, offset) ==
    IF offset + Len(id_bytes) > Len(inp) THEN None
    ELSE IF SubSeq(inp, offset + 1, offset + Len(id_bytes)) = id_bytes THEN offset
    ELSE first_window_of(inp, id_bytes, offset + 1)

\* Mutation of scan_by_id: min_offset keeps the offset of the first id found
RECURSIVE scan_by_id_keeping_first(_, _, _)
scan_by_id_keeping_first(inp, i, min_offset) ==
    IF i > Len(SYNC_ELEMENT_IDS) THEN min_offset
    ELSE
        LET id_bytes == to_be_bytes(get_value(SYNC_ELEMENT_IDS[i]))
            offset == first_window_of(inp, id_bytes, 0)
        IN  scan_by_id_keeping_first(inp, i + 1,
                IF min_offset = None THEN offset ELSE min_offset)

\* The outer for loop from the i-th SYNC id on; min_offset is None or the
\* best offset found so far
RECURSIVE scan_by_id(_, _, _)
scan_by_id(inp, i, min_offset) ==
    IF i > Len(SYNC_ELEMENT_IDS) THEN min_offset
    ELSE
        LET id_bytes == to_be_bytes(get_value(SYNC_ELEMENT_IDS[i]))
            \* input.len().min(min_offset.unwrap_or(usize::MAX))
            lookahead == IF min_offset = None THEN Len(inp)
                         ELSE Min(Len(inp), min_offset)
            offset == first_window_of(SubSeq(inp, 1, lookahead), id_bytes, 0)
        IN  scan_by_id(inp, i + 1,
                IF offset = None THEN min_offset
                ELSE IF min_offset = None THEN offset
                ELSE Min(offset, min_offset))

find_valid_element_earlier(inp) ==
    LET found(offset) ==
            IF offset # None
            THEN Ok(Tail_(inp, offset),
                    [header |-> Header_new(Id_corrupted, offset, 0),
                     body |-> Body_Corrupted])
            ELSE Err("Incomplete")
    IN  found(scan_by_id(inp, 1, None))

(***************************************************************************)
(* Specification SpecScanVariants: both variants of find_valid_element     *)
(* applied to the inputs of SpecScan                                       *)
(***************************************************************************)
CallFindValidElementEarlier ==
    /\ pc = "call"
    /\ result' = find_valid_element_earlier(input)
    /\ pc' = "find_valid_element_earlier"
    /\ UNCHANGED <<input, show_position, read_buffer, position, elements, trees,
                   overflow_checks, driver_vars>>

NextScanVariants == CallFindValidElement \/ CallFindValidElementEarlier

SpecScanVariants == InitScan /\ [][NextScanVariants]_vars

\* Two results of scanning fail together or skip as many bytes to the same
\* remaining input
SameSkip(a, b) ==
    /\ a.ok <=> b.ok
    /\ a.ok => /\ a.rest = b.rest
               /\ a.val.header.size = b.val.header.size

(***************************************************************************)
(* C30: on every input the earlier find_valid_element (id by id inside a   *)
(* look-ahead cut at the best offset so far) and the later one (offset by  *)
(* offset across all ids) both fail, or both succeed with the same skip    *)
(* offset, the smallest offset of a SYNC id, and the same remaining input. *)
(***************************************************************************)
C30_ScannerVariantsAgree ==
    /\ pc = "find_valid_element_earlier" =>
          /\ SameSkip(result, find_valid_element(input))
          /\ result.ok => result.val.header.size = FirstSyncOffset(input)
    /\ pc = "find_valid_element" =>
          SameSkip(find_valid_element_earlier(input), result)

\* A damaged byte, an Ebml id and right after it a Cluster id, which is the
\* first id the earlier variant looks for: the look-ahead of 5 bytes still
\* holds the Ebml id at offset 1
C30_Witness ==
    /\ pc = "find_valid_element_earlier"
    /\ input = <<0, 26, 69, 223, 163, 31, 67, 182, 117>>
    /\ result.ok
    /\ result.val.header.header_size = 1
    /\ result.rest = Tail_(input, 1)

====
